---- MODULE Spec2Model ----
(***************************************************************************)
(* Model of the model-driven-app UI automation helpers:                   *)
(*   src/lookup.ts              selectLookupValue, forceLookupDialogSelection, *)
(*                              pickFromLookupDialog                       *)
(*   src/powerapps-uci-forms.ts setText, setNumber, setBoolean, setOption,  *)
(*                              setMultiOption, setLookup, clearLookup,    *)
(*                              setDate, pickFromCalendar, getValue        *)
(*   src/powerapps-uci-grid.ts  findRowByCell, openRecordByCell,           *)
(*                              selectRowByCell                            *)
(* The driven page is the environment: what it renders after a gesture is  *)
(* drawn nondeterministically in the action that issues the gesture.       *)
(* Text is a sequence of one-character strings.                            *)
(***************************************************************************)
EXTENDS Integers, Sequences, FiniteSets, TLC

VARIABLES
    op,          \* the running operation
    pc,          \* position inside the operation
    result,      \* "none" while running, "ok" on return, else the error raised
    value,       \* the target value (argument)
    opts,        \* the options record of the call
    option,      \* selectLookupValue's `option` locator: "exactRx" or "startsRx"
    i,           \* loop counter of the scroll loop / hop loop
    hasListbox,  \* a role=listbox element is rendered
    clientHeight,\* the listbox's clientHeight
    window,      \* names of the role=option elements rendered, in document order
    hasMore,     \* the listbox holds a "look up more records" option
    dlgOpen,     \* the lookup dialog is visible
    rows,        \* names of the role=row elements rendered in the dialog
    row,         \* index in rows of pickFromLookupDialog's `row`, 0 when it matches nothing
    chip,        \* committed value shown by the lookup, <<>> when none
    typed,       \* text in the lookup's input
    trace,       \* driver gestures issued so far
    hist,        \* what the page has rendered so far and the value the field held before
                 \* the call (observer's record, not read by the code)
    cal,         \* calendar popup and pickFromCalendar's locals
    page,        \* the control on the page: whether it is there and visible, its role and
                 \* checked state, its selected options, the gestures it rejects
    grid         \* the data grid, the query of findRowByCell and its loop's locals

vars == << op, pc, result, value, opts, option, i, hasListbox, clientHeight,
           window, hasMore, dlgOpen, rows, row, chip, typed, trace, hist, cal, page, grid >>

(* ------------------------------ bounds --------------------------------- *)

MaxWin == 2
MaxScrollPages == 2
MaxClientHeight == 1
CalSpan == 5
MaxLead == 2

(* ------------------------------- text ---------------------------------- *)

RECURSIVE SeqsUpTo(_, _)
SeqsUpTo(S, n) ==
    IF n = 0 THEN { <<>> }
    ELSE LET shorter == SeqsUpTo(S, n - 1)
         IN shorter \cup { Append(s, x) : s \in { t \in shorter : Len(t) = n - 1 }, x \in S }

Values == { <<"a", "b">>, <<"a", ".">> }
Names == { <<"a", "b">>, <<"A", "B">>, <<"a", "b", "c">>, <<"a", ".">> }
Windows == SeqsUpTo(Names, MaxWin)
NoText == << >>

MetaChars == { ".", "*", "+", "?", "^", "$", "{", "}", "(", ")", "|", "[", "]", "\\" }

Lower(c) ==
    CASE c = "A" -> "a"
      [] c = "B" -> "b"
      [] c = "C" -> "c"
      [] c = "L" -> "l"
      [] c = "N" -> "n"
      [] c = "Y" -> "y"
      [] OTHER -> c

RECURSIVE esc(_)
esc(s) ==
    IF s = << >> THEN << >>
    ELSE (IF Head(s) \in MetaChars THEN << "\\", Head(s) >> ELSE << Head(s) >>)
         \o esc(Tail(s))

\* A compiled pattern: its atoms, each a literal character or the wildcard.
RECURSIVE Atoms(_)
Atoms(p) ==
    IF p = << >> THEN << >>
    ELSE IF Head(p) = "\\" /\ Len(p) >= 2
         THEN << [k |-> "lit", c |-> p[2]] >> \o Atoms(Tail(Tail(p)))
    ELSE IF Head(p) = "."
         THEN << [k |-> "any", c |-> "."] >> \o Atoms(Tail(p))
    ELSE << [k |-> "lit", c |-> Head(p)] >> \o Atoms(Tail(p))

AtomsMatchAt(atoms, text, pos) ==
    /\ pos + Len(atoms) - 1 <= Len(text)
    /\ \A j \in 1..Len(atoms) :
          \/ atoms[j].k = "any"
          \/ Lower(atoms[j].c) = Lower(text[pos + j - 1])

\* RegExp.test with the i flag; rx = [src, bol, eol] for /^src$/ with either anchor optional.
Test(rx, text) ==
    LET atoms == Atoms(rx.src)
        starts == IF rx.bol THEN {1} ELSE 1..(Len(text) + 1)
    IN \E pos \in starts :
          /\ AtomsMatchAt(atoms, text, pos)
          /\ rx.eol => pos + Len(atoms) - 1 = Len(text)

exactRx(v) == [src |-> esc(v), bol |-> TRUE, eol |-> TRUE]
startsRx(v) == [src |-> esc(v), bol |-> TRUE, eol |-> FALSE]

\* locator.getByRole(role, { name: rx }).first(): index of the first match, 0 when none.
First(names, rx) ==
    LET hits == { n \in 1..Len(names) : Test(rx, names[n]) }
    IN IF hits = {} THEN 0 ELSE CHOOSE n \in hits : \A m \in hits : n <= m

(* ------------------------------ gestures -------------------------------- *)

G(g) == [g |-> g, name |-> NoText, dy |-> 0]
GName(g, n) == [g |-> g, name |-> n, dy |-> 0]
GScroll(dy) == [g |-> "scrollBy", name |-> NoText, dy |-> dy]

Count(g) == Cardinality({ n \in 1..Len(trace) : trace[n].g = g })
Has(g) == \E n \in 1..Len(trace) : trace[n].g = g

NoOpts == [exact |-> TRUE, dialogStartsWith |-> TRUE, scrollPages |-> 0]
NoHist == [listbox |-> FALSE, firstAt |-> -1, onlyLonger |-> TRUE, before |-> NoText,
           beforeTyped |-> NoText, once |-> << >>, response |-> TRUE, returned |-> NoText,
           selected |-> {}, other |-> NoText]
\* a control with the label: not on the page, on the page but not visible, or visible
Controls == { "absent", "hidden", "visible" }
NoPage == [fails |-> {}, chipClears |-> TRUE, visible |-> TRUE, control |-> "visible",
           role |-> "combobox", checked |-> FALSE, selected |-> {}, editable |-> FALSE,
           hidden |-> {}, other |-> NoText, otherFirst |-> FALSE]
NoMonth == [y |-> 0, m |-> 0]
NoCal == [shown |-> NoMonth, start |-> NoMonth, fmt |-> "long", hasNext |-> FALSE,
          hasPrev |-> FALSE, moves |-> FALSE, want |-> NoMonth, maxHops |-> 0,
          goNext |-> "null", nNext |-> 0, nPrev |-> 0, nPgDn |-> 0, nPgUp |-> 0,
          day |-> 0, clicked |-> 0, tz |-> 0]

\* no grid in play
NoGrid == [value |-> NoText, column |-> 1, by |-> "logicalName", partial |-> FALSE,
           maxScrolls |-> 0, attempts |-> 0, cells |-> << >>, body |-> TRUE, pos |-> 0,
           scrolls |-> 0, probes |-> 0, row |-> 0, firstAt |-> -1]

Init ==
    /\ op = "idle"
    /\ pc = "idle"
    /\ result = "none"
    /\ value = NoText
    /\ opts = NoOpts
    /\ option = "exactRx"
    /\ i = 0
    /\ hasListbox = FALSE
    /\ clientHeight = 1
    /\ window = << >>
    /\ hasMore = FALSE
    /\ dlgOpen = FALSE
    /\ rows = << >>
    /\ row = 0
    /\ chip \in { NoText, <<"x">> }
    /\ typed = NoText
    /\ trace = << >>
    /\ hist = [NoHist EXCEPT !.before = chip]
    /\ cal = NoCal
    /\ \E c \in Controls : page = [NoPage EXCEPT !.control = c]
    /\ grid = NoGrid

Return == /\ pc' = "done" /\ result' = "ok"
Throw(e) == /\ pc' = "done" /\ result' = e

(* -------------------- the page, as an observer sees it ------------------- *)

RECURSIVE Fold(_)
Fold(t) == IF t = << >> THEN << >> ELSE << Lower(Head(t)) >> \o Fold(Tail(t))

SameText(n, v) == Fold(n) = Fold(v)
LongerWithPrefix(n, v) == Len(n) > Len(v) /\ Fold(SubSeq(n, 1, Len(v))) = Fold(v)

\* the rendered names show the target: its exact text, or in prefix mode also a longer name
Shows(names, v, exactMode) ==
    \E n \in 1..Len(names) :
       SameText(names[n], v) \/ (~exactMode /\ LongerWithPrefix(names[n], v))

\* every rendered entry is a longer name that starts with the target, and there is one
OnlyLonger(names, v) ==
    /\ names # << >>
    /\ \A n \in 1..Len(names) : LongerWithPrefix(names[n], v)

\* hist after the page rendered `names` in its listbox, `scrolls` scrolls into the call
Observe(names, v, exactMode, scrolls) ==
    [hist EXCEPT !.listbox = TRUE,
                 !.firstAt = IF @ = -1 /\ Shows(names, v, exactMode) THEN scrolls ELSE @,
                 !.onlyLonger = @ /\ OnlyLonger(names, v)]

(* ---------------------- src/lookup.ts: shared steps ---------------------- *)

lookupOps == { "selectLookupValue", "forceLookupDialogSelection" }

\* locator.isVisible() of a .first() locator over the rendered names
IsVisible(names, rx) == First(names, rx) # 0

\* option.click(): the page commits the clicked name as the field's chip, or the click does not stick
ClickOption(name, tr) ==
    /\ trace' = Append(tr, GName("clickOption", name))
    /\ \E sticks \in BOOLEAN :
          /\ chip' = IF sticks THEN name ELSE chip
          /\ typed' = IF sticks THEN NoText ELSE typed

\* clearLookupValue: Control+A, Backspace, click, fill(''), each in its own try/catch
clearLookupValue ==
    << G("press Control+A"), G("press Backspace"), G("clickInput"), GName("fill", NoText) >>

(* ------------------- src/lookup.ts: selectLookupValue -------------------- *)

\* the call, with openWithArrowDown at its default
CallSelectLookupValue ==
    /\ pc = "idle"
    /\ \E v \in Values, e \in BOOLEAN, d \in BOOLEAN, n \in 0..MaxScrollPages :
          /\ value' = v
          /\ opts' = [exact |-> e, dialogStartsWith |-> d, scrollPages |-> n]
    /\ op' = "selectLookupValue"
    /\ pc' = "findLookup"
    /\ UNCHANGED << result, option, i, hasListbox, clientHeight, window, hasMore, dlgOpen,
                    rows, row, chip, typed, trace, hist, cal, page, grid >>

\* findLookup: expect(cb).toBeVisible()
findLookup ==
    /\ op \in lookupOps
    /\ pc = "findLookup"
    /\ IF page.control = "visible"
       THEN /\ pc' = "entry"
            /\ UNCHANGED result
       ELSE Throw("ControlNotFound")
    /\ UNCHANGED << op, value, opts, option, i, hasListbox, clientHeight, window, hasMore,
                    dlgOpen, rows, row, chip, typed, trace, hist, cal, page, grid >>

\* page.waitForResponse(predicate, { timeout }): a matching response is seen, or it rejects
waitForResponse(seen) == IF seen THEN "resolved" ELSE "rejected"

\* the wait with its rejection left to propagate
waitForDataverseSearchUncaught(seen) == waitForResponse(seen)

\* await page.waitForResponse(...).catch(() => {})
waitForDataverseSearch(seen) ==
    IF waitForResponse(seen) = "rejected" THEN "resolved" ELSE waitForResponse(seen)

\* click, clear, fill(value), ArrowDown, network settle; then the page renders its listbox
DirectEntry ==
    /\ op = "selectLookupValue"
    /\ pc = "entry"
    /\ trace' = Append(trace, G("clickInput")) \o clearLookupValue
                   \o << GName("fill", value), G("press ArrowDown") >>
    /\ chip' \in { chip, NoText }
    /\ typed' = value
    /\ \E lb \in BOOLEAN :
          /\ hasListbox' = lb
          /\ IF lb
             THEN /\ window' \in Windows
                  /\ clientHeight' \in 1..MaxClientHeight
             ELSE /\ window' = << >>
                  /\ UNCHANGED clientHeight
    /\ \E seen \in BOOLEAN :
          /\ hist' = [(IF hasListbox' THEN Observe(window', value, opts.exact, 0) ELSE hist)
                         EXCEPT !.response = seen]
          /\ IF waitForDataverseSearch(seen) = "resolved"
             THEN /\ pc' = "probeExact"
                  /\ UNCHANGED result
             ELSE Throw("SearchTimedOut")
    /\ UNCHANGED << op, value, opts, option, i, hasMore, dlgOpen, rows, row, cal, page, grid >>

\* the exact probe going on to the next probe after its click
ProbeExactCarriesOn ==
    /\ op = "selectLookupValue"
    /\ pc = "probeExact"
    /\ option' = "exactRx"
    /\ IF IsVisible(window, exactRx(value))
       THEN /\ ClickOption(window[First(window, exactRx(value))], trace)
            /\ pc' = "probeStarts"
            /\ UNCHANGED result
       ELSE /\ pc' = "probeStarts"
            /\ UNCHANGED << result, chip, typed, trace >>
    /\ UNCHANGED << op, value, opts, i, hasListbox, clientHeight, window, hasMore, dlgOpen,
                    rows, row, hist, cal, page, grid >>

\* let option = listbox.getByRole('option', { name: exactRx }).first(); click it if visible
ProbeExact ==
    /\ op = "selectLookupValue"
    /\ pc = "probeExact"
    /\ option' = "exactRx"
    /\ IF IsVisible(window, exactRx(value))
       THEN /\ ClickOption(window[First(window, exactRx(value))], trace)
            /\ Return
       ELSE /\ pc' = "probeStarts"
            /\ UNCHANGED << result, chip, typed, trace >>
    /\ UNCHANGED << op, value, opts, i, hasListbox, clientHeight, window, hasMore, dlgOpen,
                    rows, row, hist, cal, page, grid >>

\* if (!exact) { option = ...startsRx...first(); click it if visible }
ProbeStarts ==
    /\ op = "selectLookupValue"
    /\ pc = "probeStarts"
    /\ IF ~opts.exact
       THEN /\ option' = "startsRx"
            /\ IF IsVisible(window, startsRx(value))
               THEN /\ ClickOption(window[First(window, startsRx(value))], trace)
                    /\ Return
               ELSE /\ pc' = "scroll"
                    /\ UNCHANGED << result, chip, typed, trace >>
       ELSE /\ pc' = "scroll"
            /\ UNCHANGED << option, result, chip, typed, trace >>
    /\ UNCHANGED << op, value, opts, i, hasListbox, clientHeight, window, hasMore, dlgOpen,
                    rows, row, hist, cal, page, grid >>

OptionRx == IF option = "exactRx" THEN exactRx(value) ELSE startsRx(value)

\* the loop leaving one iteration early
ScrollLoopGuardShort(k, n) == k + 1 < n

\* the loop running one iteration too many
ScrollLoopGuardOver(k, n) == k <= n

\* the loop never left
ScrollLoopGuardAlways(k, n) == TRUE

\* for (let i = 0; i < scrollPages; i++)
ScrollLoopGuard(k, n) == k < n

\* one iteration of the scroll loop: scrollBy(0, clientHeight), probe `option`, then opt2
ScrollStep ==
    /\ op = "selectLookupValue"
    /\ pc = "scroll"
    /\ ScrollLoopGuard(i, opts.scrollPages)
    /\ IF ~hasListbox
       THEN \* listbox.evaluate never resolves its element: the call raises
            /\ Throw("ListboxNotFound")
            /\ UNCHANGED << i, window, chip, typed, trace, hist >>
       ELSE \E w \in Windows :
            LET tr == Append(trace, GScroll(clientHeight))
            IN /\ window' = w
               /\ hist' = Observe(w, value, opts.exact, Count("scrollBy") + 1)
               /\ IF IsVisible(w, OptionRx)
                  THEN /\ ClickOption(w[First(w, OptionRx)], tr)
                       /\ Return
                       /\ UNCHANGED i
                  ELSE IF ~opts.exact /\ IsVisible(w, startsRx(value))
                  THEN /\ ClickOption(w[First(w, startsRx(value))], tr)
                       /\ Return
                       /\ UNCHANGED i
                  ELSE /\ i' = i + 1
                       /\ trace' = tr
                       /\ UNCHANGED << pc, result, chip, typed >>
    /\ UNCHANGED << op, value, opts, option, hasListbox, clientHeight, hasMore, dlgOpen,
                    rows, row, cal, page, grid >>

\* loop exhausted: await pickFromLookupDialog(page, input, value, { timeout, allowStartsWith })
Escalate ==
    /\ op = "selectLookupValue"
    /\ pc = "scroll"
    /\ ~ScrollLoopGuard(i, opts.scrollPages)
    /\ pc' = "dlgTrigger"
    /\ UNCHANGED << op, result, value, opts, option, i, hasListbox, clientHeight, window,
                    hasMore, dlgOpen, rows, row, chip, typed, trace, hist, cal, page, grid >>

(* --------------- src/lookup.ts: forceLookupDialogSelection ---------------- *)

CallForceLookupDialogSelection ==
    /\ pc = "idle"
    /\ \E v \in Values, d \in BOOLEAN :
          /\ value' = v
          /\ opts' = [NoOpts EXCEPT !.dialogStartsWith = d]
    /\ op' = "forceLookupDialogSelection"
    /\ pc' = "findLookup"
    /\ UNCHANGED << result, option, i, hasListbox, clientHeight, window, hasMore, dlgOpen,
                    rows, row, chip, typed, trace, hist, cal, page, grid >>

\* input.click(); clearLookupValue(input); then the dialog
ForceEntry ==
    /\ op = "forceLookupDialogSelection"
    /\ pc = "entry"
    /\ trace' = Append(trace, G("clickInput")) \o clearLookupValue
    /\ chip' \in { chip, NoText }
    /\ typed' = NoText
    /\ pc' = "dlgTrigger"
    /\ UNCHANGED << op, result, value, opts, option, i, hasListbox, clientHeight, window,
                    hasMore, dlgOpen, rows, row, hist, cal, page, grid >>

(* ------------------ src/lookup.ts: pickFromLookupDialog ------------------- *)

\* the trigger, but carrying on to the rows when no dialog became visible
DlgTriggerCarriesOn ==
    /\ op \in lookupOps
    /\ pc = "dlgTrigger"
    /\ \E moreBtnVisible \in BOOLEAN, opens \in BOOLEAN :
          /\ trace' = Append(trace, IF moreBtnVisible THEN G("clickMoreBtn")
                                                       ELSE G("press Alt+ArrowDown"))
          /\ dlgOpen' = opens
          /\ pc' = "dlgRow"
          /\ hasListbox' = FALSE
          /\ window' = << >>
          /\ UNCHANGED result
    /\ UNCHANGED << op, value, opts, option, i, clientHeight, hasMore, rows, row, chip,
                    typed, hist, cal, page, grid >>

\* trigger the picker (button, else Alt+ArrowDown) and expect the dialog to be visible;
\* the modal, once open, dismisses the inline dropdown
DlgTrigger ==
    /\ op \in lookupOps
    /\ pc = "dlgTrigger"
    /\ \E moreBtnVisible \in BOOLEAN, opens \in BOOLEAN :
          /\ trace' = Append(trace, IF moreBtnVisible THEN G("clickMoreBtn")
                                                       ELSE G("press Alt+ArrowDown"))
          /\ dlgOpen' = opens
          /\ IF opens
             THEN /\ pc' = "dlgRow"
                  /\ hasListbox' = FALSE
                  /\ window' = << >>
                  /\ UNCHANGED result
             ELSE /\ Throw("DialogDidNotOpen")
                  /\ UNCHANGED << hasListbox, window >>
    /\ UNCHANGED << op, value, opts, option, i, clientHeight, hasMore, rows, row, chip,
                    typed, hist, cal, page, grid >>

\* the startsWith row taken whenever it is allowed
DialogRowPrefixFirst(names, v, allowStartsWith) ==
    IF allowStartsWith THEN First(names, startsRx(v)) ELSE First(names, exactRx(v))

\* row = exact first; if it is not visible and allowStartsWith, the startsWith row
DialogRow(names, v, allowStartsWith) ==
    IF ~IsVisible(names, exactRx(v)) /\ allowStartsWith
    THEN First(names, startsRx(v))
    ELSE First(names, exactRx(v))

\* fill the search box when there is one; locate the row; expect it to be visible
DlgRow ==
    /\ op \in lookupOps
    /\ pc = "dlgRow"
    /\ \E searchVisible \in BOOLEAN, r \in Windows :
          /\ rows' = r
          /\ row' = DialogRow(r, value, opts.dialogStartsWith)
          /\ hist' = [hist EXCEPT !.onlyLonger = @ /\ OnlyLonger(r, value)]
          /\ trace' = trace \o (IF searchVisible
                                THEN << GName("fillSearch", value), G("press Enter") >>
                                ELSE << >>)
          /\ IF DialogRow(r, value, opts.dialogStartsWith) # 0
             THEN /\ pc' = "dlgCommit"
                  /\ UNCHANGED result
             ELSE Throw("RowNotFound")
    /\ UNCHANGED << op, value, opts, option, i, hasListbox, clientHeight, window, hasMore,
                    dlgOpen, chip, typed, cal, page, grid >>

Outcomes == { "closes", "stays", "throws" }

\* row.dblclick().catch(checkbox.check() + confirm, or row.click() + confirm)
DlgCommit ==
    /\ op \in lookupOps
    /\ pc = "dlgCommit"
    /\ \E dbl \in Outcomes :
          IF dbl # "throws"
          THEN /\ trace' = Append(trace, GName("dblclickRow", rows[row]))
               /\ dlgOpen' = (dbl = "stays")
               /\ chip' = IF dbl = "closes" THEN rows[row] ELSE chip
               /\ pc' = "dlgExpectHidden"
               /\ UNCHANGED result
          ELSE \E checkboxVisible \in BOOLEAN, confirm \in Outcomes :
               LET tr == Append(trace, IF checkboxVisible THEN GName("checkRow", rows[row])
                                                          ELSE GName("clickRow", rows[row]))
               IN IF confirm # "throws"
                  THEN /\ trace' = Append(tr, G("clickConfirm"))
                       /\ dlgOpen' = (confirm = "stays")
                       /\ chip' = IF confirm = "closes" THEN rows[row] ELSE chip
                       /\ pc' = "dlgExpectHidden"
                       /\ UNCHANGED result
                  ELSE /\ trace' = tr
                       /\ Throw("ConfirmButtonNotFound")
                       /\ UNCHANGED << dlgOpen, chip >>
    /\ UNCHANGED << op, value, opts, option, i, hasListbox, clientHeight, window, hasMore,
                    rows, row, typed, hist, cal, page, grid >>

\* the close wait swallowed: the call returns whether or not the dialog closed
DlgExpectHiddenSwallowed ==
    /\ op \in lookupOps
    /\ pc = "dlgExpectHidden"
    /\ trace' = Append(trace, G("expectDialogHidden"))
    /\ Return
    /\ UNCHANGED << op, value, opts, option, i, hasListbox, clientHeight, window, hasMore,
                    dlgOpen, rows, row, chip, typed, hist, cal, page, grid >>

\* await expect(dlg).toBeHidden({ timeout: 5000 })
DlgExpectHidden ==
    /\ op \in lookupOps
    /\ pc = "dlgExpectHidden"
    /\ trace' = Append(trace, G("expectDialogHidden"))
    /\ IF dlgOpen THEN Throw("SelectionNotCommitted") ELSE Return
    /\ UNCHANGED << op, value, opts, option, i, hasListbox, clientHeight, window, hasMore,
                    dlgOpen, rows, row, chip, typed, hist, cal, page, grid >>

(* ---------------- src/powerapps-uci-forms.ts: setLookup ------------------ *)

\* const rx = exact ? new RegExp(`^${esc(value)}$`, 'i') : new RegExp(value, 'i')
valueRx(v, exact) ==
    IF exact THEN exactRx(v) ELSE [src |-> v, bol |-> FALSE, eol |-> FALSE]

\* what another lookup of the page shows: nothing, or a chip with its Clear button, in a
\* field placed before or after this one in the document
OtherLookups == { [other |-> NoText, otherFirst |-> FALSE] }
                    \cup [other : { <<"x">> }, otherFirst : BOOLEAN]

CallSetLookup ==
    /\ pc = "idle"
    /\ \E v \in Values, e \in BOOLEAN :
          /\ value' = v
          /\ opts' = [NoOpts EXCEPT !.exact = e]
    /\ \E o \in OtherLookups :
          /\ page' = [page EXCEPT !.other = o.other, !.otherFirst = o.otherFirst]
          /\ hist' = [hist EXCEPT !.other = o.other]
    /\ op' = "setLookup"
    /\ pc' = "slResolve"
    /\ UNCHANGED << result, option, i, hasListbox, clientHeight, window, hasMore, dlgOpen,
                    rows, row, chip, typed, trace, cal, grid >>

\* await expect(lookup).toBeVisible()
SLResolve ==
    /\ op = "setLookup"
    /\ pc = "slResolve"
    /\ IF page.control = "visible"
       THEN /\ pc' = "slEntry"
            /\ UNCHANGED result
       ELSE Throw("ControlNotFound")
    /\ UNCHANGED << op, value, opts, option, i, hasListbox, clientHeight, window, hasMore,
                    dlgOpen, rows, row, chip, typed, trace, hist, cal, page, grid >>

\* page.locator('button[aria-label^="Clear"], ...').first(): the first such button of the
\* whole page, which is the one of the other lookup when that field comes first with a chip
FirstClearBtnIsOwn == ~(page.other # NoText /\ page.otherFirst)

\* clear button if visible, click, fill(''), type(value), ArrowDown, getListbox
SLEntry ==
    /\ op = "setLookup"
    /\ pc = "slEntry"
    /\ \E clearVisible \in BOOLEAN :
          /\ trace' = trace
                \o (IF clearVisible
                    THEN << G(IF FirstClearBtnIsOwn THEN "clickClearBtn"
                                                    ELSE "clickOtherClearBtn") >>
                    ELSE << >>)
                \o << G("clickInput"), GName("fill", NoText), GName("type", value),
                      G("press ArrowDown") >>
          /\ chip' \in (IF clearVisible /\ FirstClearBtnIsOwn THEN { chip, NoText }
                                                               ELSE { chip })
          /\ \E o \in (IF clearVisible /\ ~FirstClearBtnIsOwn THEN { page.other, NoText }
                                                                ELSE { page.other }) :
                page' = [page EXCEPT !.other = o]
    /\ typed' = value
    /\ \E lb \in BOOLEAN :
          /\ hasListbox' = lb
          /\ IF lb
             THEN /\ window' \in Windows
                  /\ hasMore' \in BOOLEAN
                  /\ pc' = "slPick"
                  /\ UNCHANGED result
             ELSE /\ Throw("ListboxNotVisible")
                  /\ UNCHANGED << window, hasMore >>
    /\ UNCHANGED << op, value, opts, option, i, clientHeight, dlgOpen, rows, row, hist, cal,
                    grid >>

\* click the matching option when there is one, else the "look up more records" option
SLPick ==
    /\ op = "setLookup"
    /\ pc = "slPick"
    /\ LET rx == valueRx(value, opts.exact)
       IN IF First(window, rx) # 0
          THEN /\ ClickOption(window[First(window, rx)], trace)
               /\ pc' = "slVerify"
               /\ UNCHANGED << result, dlgOpen, hasListbox, window >>
          ELSE IF ~hasMore
          THEN /\ Throw("NoLookupResult")
               /\ UNCHANGED << chip, typed, trace, dlgOpen, hasListbox, window >>
          ELSE \E opens \in BOOLEAN :
               /\ trace' = Append(trace, G("clickMoreOption"))
               /\ dlgOpen' = opens
               /\ IF opens
                  THEN /\ pc' = "slDlgRow"
                       /\ hasListbox' = FALSE
                       /\ window' = << >>
                       /\ UNCHANGED result
                  ELSE /\ Throw("DialogDidNotOpen")
                       /\ UNCHANGED << hasListbox, window >>
               /\ UNCHANGED << chip, typed >>
    /\ UNCHANGED << op, value, opts, option, i, clientHeight, hasMore, rows, row, hist, cal,
                    page, grid >>

\* search.fill(value); search.press('Enter'); expect(row).toBeVisible()
SLDlgRow ==
    /\ op = "setLookup"
    /\ pc = "slDlgRow"
    /\ \E searchPresent \in BOOLEAN :
          IF ~searchPresent
          THEN /\ Throw("SearchBoxNotFound")
               /\ UNCHANGED << rows, row, trace >>
          ELSE \E r \in Windows :
               /\ rows' = r
               /\ row' = First(r, valueRx(value, opts.exact))
               /\ trace' = trace \o << GName("fillSearch", value), G("press Enter") >>
               /\ IF First(r, valueRx(value, opts.exact)) # 0
                  THEN /\ pc' = "slDblclick"
                       /\ UNCHANGED result
                  ELSE Throw("RowNotFound")
    /\ UNCHANGED << op, value, opts, option, i, hasListbox, clientHeight, window, hasMore,
                    dlgOpen, chip, typed, hist, cal, page, grid >>

\* await row.dblclick()
SLDblclick ==
    /\ op = "setLookup"
    /\ pc = "slDblclick"
    /\ \E dbl \in Outcomes :
          IF dbl = "throws"
          THEN /\ Throw("DblclickFailed")
               /\ UNCHANGED << trace, dlgOpen, chip >>
          ELSE /\ trace' = Append(trace, GName("dblclickRow", rows[row]))
               /\ dlgOpen' = (dbl = "stays")
               /\ chip' = IF dbl = "closes" THEN rows[row] ELSE chip
               /\ pc' = "slExpectHidden"
               /\ UNCHANGED result
    /\ UNCHANGED << op, value, opts, option, i, hasListbox, clientHeight, window, hasMore,
                    rows, row, typed, hist, cal, page, grid >>

\* await expect(dlg).toBeHidden()
SLExpectHidden ==
    /\ op = "setLookup"
    /\ pc = "slExpectHidden"
    /\ trace' = Append(trace, G("expectDialogHidden"))
    /\ IF dlgOpen
       THEN Throw("SelectionNotCommitted")
       ELSE /\ pc' = "slVerify"
            /\ UNCHANGED result
    /\ UNCHANGED << op, value, opts, option, i, hasListbox, clientHeight, window, hasMore,
                    dlgOpen, rows, row, chip, typed, hist, cal, page, grid >>

\* await expect(container.getByText(rx)).toBeVisible()
SLVerify ==
    /\ op = "setLookup"
    /\ pc = "slVerify"
    /\ trace' = Append(trace, G("readBack"))
    /\ IF chip # NoText /\ Test(valueRx(value, opts.exact), chip)
       THEN Return
       ELSE Throw("ValueNotShown")
    /\ UNCHANGED << op, value, opts, option, i, hasListbox, clientHeight, window, hasMore,
                    dlgOpen, rows, row, chip, typed, hist, cal, page, grid >>

(* ------------- src/powerapps-uci-forms.ts: pickFromCalendar -------------- *)

LongMonth == << "January", "February", "March", "April", "May", "June", "July", "August",
                "September", "October", "November", "December" >>
ShortMonth == << "Jan", "Feb", "Mar", "Apr", "May", "Jun", "Jul", "Aug", "Sep", "Oct",
                 "Nov", "Dec" >>

\* the months the popup can be paged through
FirstMonth == [y |-> 2023, m |-> 11]
MonthAt(n) ==
    LET t == (FirstMonth.m - 1) + n
    IN [y |-> FirstMonth.y + (t \div 12), m |-> (t % 12) + 1]
CalMonths == { MonthAt(n) : n \in 0..(CalSpan - 1) }
Index(mo) == mo.y * 12 + mo.m
NextMonth(mo) == IF mo.m = 12 THEN [y |-> mo.y + 1, m |-> 1] ELSE [y |-> mo.y, m |-> mo.m + 1]
PrevMonth(mo) == IF mo.m = 1 THEN [y |-> mo.y - 1, m |-> 12] ELSE [y |-> mo.y, m |-> mo.m - 1]
DaysIn(mo) ==
    IF mo.m = 2 THEN (IF mo.y % 4 = 0 /\ (mo.y % 100 # 0 \/ mo.y % 400 = 0) THEN 29 ELSE 28)
    ELSE IF mo.m \in { 4, 6, 9, 11 } THEN 30 ELSE 31

\* heading text of the popup, as words: "March 2024", "Mar 2024" or "3 / 2024"
Fmts == { "long", "short", "numeric" }
Heading(fmt, mo) ==
    CASE fmt = "long" -> << LongMonth[mo.m], ToString(mo.y) >>
      [] fmt = "short" -> << ShortMonth[mo.m], ToString(mo.y) >>
      [] OTHER -> << ToString(mo.m), "/", ToString(mo.y) >>

\* target.toLocaleString('en-AU', { month: 'long' | 'short', year: 'numeric' })
longText(mo) == << LongMonth[mo.m], ToString(mo.y) >>
shortText(mo) == << ShortMonth[mo.m], ToString(mo.y) >>

\* t.includes(sub)
Includes(t, sub) ==
    \E pos \in 1..(Len(t) - Len(sub) + 1) : \A j \in 1..Len(sub) : t[pos + j - 1] = sub[j]

MonthWords == { LongMonth[n] : n \in 1..12 } \cup { ShortMonth[n] : n \in 1..12 }
MonthOfWord(w) == CHOOSE n \in 1..12 : LongMonth[n] = w \/ ShortMonth[n] = w
Years == { mo.y : mo \in CalMonths }
YearWords == { ToString(y) : y \in Years }
YearOfWord(w) == CHOOSE y \in Years : ToString(y) = w

\* headerToMonth: /([A-Za-z]{3,})\s+(\d{4})/ then new Date(`${m[1]} 1, ${m[2]}`); null on no match
headerToMonth(t) ==
    LET at == { pos \in 1..(Len(t) - 1) : t[pos] \in MonthWords /\ t[pos + 1] \in YearWords }
    IN IF at = {} THEN NoMonth
       ELSE LET pos == CHOOSE q \in at : \A r \in at : q <= r
            IN [y |-> YearOfWord(t[pos + 1]), m |-> MonthOfWord(t[pos])]

Abs(n) == IF n < 0 THEN -n ELSE n

\* the year term dropped
monthsDiffNoYear(want, current) == want.m - current.m

\* (want.getFullYear() - current.getFullYear()) * 12 + (want.getMonth() - current.getMonth())
monthsDiff(want, current) == (want.y - current.y) * 12 + (want.m - current.m)

SafetyMargin == 24
DefaultMaxHops == 480

\* maxHops and goNext after `const current = await headerToMonth()`
HopPlan(want, current) ==
    IF current = NoMonth
    THEN [maxHops |-> DefaultMaxHops, goNext |-> "null"]
    ELSE [maxHops |-> Abs(monthsDiff(want, current)) + SafetyMargin,
          goNext |-> IF monthsDiff(want, current) > 0 THEN "true" ELSE "false"]

\* if (goNext && next.count()) next.click(); else if (prev.count()) prev.click();
\* else cal.press(goNext ? 'PageDown' : 'PageUp')
HopGesture(goNext, hasNext, hasPrev) ==
    IF goNext /\ hasNext THEN "clickNext"
    ELSE IF hasPrev THEN "clickPrev"
    ELSE IF goNext THEN "PageDown" ELSE "PageUp"

\* the month the popup shows after a gesture: one month on, held at the ends of its range
Paged(mo, gesture, moves) ==
    IF ~moves THEN mo
    ELSE IF gesture \in { "clickNext", "PageDown" }
    THEN (IF NextMonth(mo) \in CalMonths THEN NextMonth(mo) ELSE mo)
    ELSE (IF PrevMonth(mo) \in CalMonths THEN PrevMonth(mo) ELSE mo)

\* the callers of the calendar steps: pickFromCalendar on its own, or from within setDate
calOps == { "pickFromCalendar", "setDate" }

CallPickFromCalendar ==
    /\ pc = "idle"
    /\ \E want \in CalMonths : cal' = [cal EXCEPT !.want = want]
    /\ op' = "pickFromCalendar"
    /\ pc' = "calExpect"
    /\ UNCHANGED << result, value, opts, option, i, hasListbox, clientHeight, window, hasMore,
                    dlgOpen, rows, row, chip, typed, trace, hist, page, grid >>

\* await expect(cal).toBeVisible({ timeout: 10_000 }); the popup shows some month
CalExpect ==
    /\ op \in calOps
    /\ pc = "calExpect"
    /\ \E visible \in BOOLEAN :
          IF visible
          THEN /\ \E mo \in CalMonths, f \in Fmts, n \in BOOLEAN, p \in BOOLEAN, mv \in BOOLEAN :
                     cal' = [cal EXCEPT !.shown = mo, !.start = mo, !.fmt = f, !.hasNext = n,
                                        !.hasPrev = p, !.moves = mv]
               /\ pc' = "calPlan"
               /\ UNCHANGED result
          ELSE /\ Throw("CalendarNotVisible")
               /\ UNCHANGED cal
    /\ UNCHANGED << op, value, opts, option, i, hasListbox, clientHeight, window, hasMore,
                    dlgOpen, rows, row, chip, typed, trace, hist, page, grid >>

\* const current = await headerToMonth(); maxHops, goNext
CalPlan ==
    /\ op \in calOps
    /\ pc = "calPlan"
    /\ LET plan == HopPlan(cal.want, headerToMonth(Heading(cal.fmt, cal.shown)))
       IN cal' = [cal EXCEPT !.maxHops = plan.maxHops, !.goNext = plan.goNext]
    /\ i' = 0
    /\ pc' = "calLoop"
    /\ UNCHANGED << op, result, value, opts, option, hasListbox, clientHeight, window, hasMore,
                    dlgOpen, rows, row, chip, typed, trace, hist, page, grid >>

\* if (t.includes(long) || t.includes(short)) break
HeadingShowsTarget ==
    \/ Includes(Heading(cal.fmt, cal.shown), longText(cal.want))
    \/ Includes(Heading(cal.fmt, cal.shown), shortText(cal.want))

\* one iteration more
HopLoopGuardOneMore(k, n) == k <= n

\* for (let i = 0; i < maxHops; i++)
HopLoopGuard(k, n) == k < n

\* one iteration that does not break: re-read the heading, issue the gesture
CalHop ==
    /\ op \in calOps
    /\ pc = "calLoop"
    /\ HopLoopGuard(i, cal.maxHops)
    /\ ~HeadingShowsTarget
    /\ LET go == IF cal.goNext = "null" THEN TRUE ELSE cal.goNext = "true"
           g == HopGesture(go, cal.hasNext, cal.hasPrev)
       IN cal' = [cal EXCEPT !.goNext = IF go THEN "true" ELSE "false",
                             !.shown = Paged(cal.shown, g, cal.moves),
                             !.nNext = @ + (IF g = "clickNext" THEN 1 ELSE 0),
                             !.nPrev = @ + (IF g = "clickPrev" THEN 1 ELSE 0),
                             !.nPgDn = @ + (IF g = "PageDown" THEN 1 ELSE 0),
                             !.nPgUp = @ + (IF g = "PageUp" THEN 1 ELSE 0)]
    /\ i' = i + 1
    /\ UNCHANGED << op, pc, result, value, opts, option, hasListbox, clientHeight, window,
                    hasMore, dlgOpen, rows, row, chip, typed, trace, hist, page, grid >>

\* the loop ends: the heading shows the target (break) or the hops are used up
CalLoopExit ==
    /\ op \in calOps
    /\ pc = "calLoop"
    /\ ~HopLoopGuard(i, cal.maxHops) \/ HeadingShowsTarget
    /\ pc' = "calDay"
    /\ UNCHANGED << op, result, value, opts, option, i, hasListbox, clientHeight, window,
                    hasMore, dlgOpen, rows, row, chip, typed, trace, hist, cal, page, grid >>

\* String(n), as decimal digits
Digits(n) == IF n < 10 THEN << n >> ELSE << n \div 10, n % 10 >>

\* the day cells of the month grid: `lead` closing days of the previous month, then the month
GridSize(mo, lead) == lead + DaysIn(mo)
Cell(mo, lead, n) == IF n <= lead THEN DaysIn(PrevMonth(mo)) - lead + n ELSE n - lead

Exposures == { "button", "gridcell", "both", "bothLabelled" }

\* new RegExp(`^${target.getDate()}$`) against a button's name
named(c, d) == Digits(c) = Digits(d)

\* filter({ hasText: String(target.getDate()) }) against a gridcell's text
hasText(c, d) == Includes(Digits(c), Digits(d))

Least(S) == IF S = {} THEN 0 ELSE CHOOSE n \in S : \A m \in S : n <= m

\* cal.getByRole('button', { name: /^d$/ }).first()
\*    .or(cal.locator('[role="gridcell"]').filter({ hasText: String(d) }).first())
\* the elements the locator resolves to, as <<role, index of the cell>>
dayBtn(mo, lead, d, exposure) ==
    LET b == IF exposure \in { "button", "both" }
             THEN Least({ n \in 1..GridSize(mo, lead) : named(Cell(mo, lead, n), d) }) ELSE 0
        g == IF exposure \in { "gridcell", "both", "bothLabelled" }
             THEN Least({ n \in 1..GridSize(mo, lead) : hasText(Cell(mo, lead, n), d) }) ELSE 0
    IN (IF b # 0 THEN { << "button", b >> } ELSE {})
       \cup (IF g # 0 THEN { << "gridcell", g >> } ELSE {})

\* await expect(dayBtn).toBeVisible(); await dayBtn.click()
CalPickDay ==
    /\ op \in calOps
    /\ pc = "calDay"
    /\ \E d \in (IF op = "setDate" THEN { cal.day } ELSE 1..DaysIn(cal.want)),
          lead \in 0..MaxLead, exposure \in Exposures :
          \E els \in { dayBtn(cal.shown, lead, d, exposure) } :
             IF els = {}
             THEN /\ Throw("DayNotVisible")
                  /\ cal' = [cal EXCEPT !.day = d]
             ELSE IF Cardinality(els) > 1
             THEN /\ Throw("StrictModeViolation")
                  /\ cal' = [cal EXCEPT !.day = d]
             ELSE /\ IF op = "setDate"
                     THEN /\ pc' = "verify"
                          /\ UNCHANGED result
                     ELSE Return
                  /\ cal' = [cal EXCEPT !.day = d,
                                        !.clicked =
                                            Cell(cal.shown, lead, (CHOOSE e \in els : TRUE)[2])]
    /\ UNCHANGED << op, value, opts, option, i, hasListbox, clientHeight, window, hasMore,
                    dlgOpen, rows, row, chip, typed, trace, hist, page, grid >>

NextCal ==
    \/ CallPickFromCalendar
    \/ CalExpect
    \/ CalPlan
    \/ CalHop
    \/ CalLoopExit
    \/ CalPickDay

\* the lookup field plays no part in the calendar
InitCal == Init /\ chip = NoText /\ page = NoPage

SpecCal == InitCal /\ [][NextCal]_vars

(* ---------- src/powerapps-uci-forms.ts: parseDateLoose, setDate ----------- *)

DigitChars == << "0", "1", "2", "3", "4", "5", "6", "7", "8", "9" >>
IsDigit(c) == \E n \in 1..10 : DigitChars[n] = c
DigitVal(c) == (CHOOSE n \in 1..10 : DigitChars[n] = c) - 1

\* Number(text) of a run of digits
RECURSIVE Number(_)
Number(t) == IF t = << >> THEN 0 ELSE Number(SubSeq(t, 1, Len(t) - 1)) * 10 + DigitVal(t[Len(t)])

AllDigits(t) == \A n \in 1..Len(t) : IsDigit(t[n])

\* n in decimal, left-padded with zeros to w characters
RECURSIVE Pad(_, _)
Pad(n, w) == IF w = 0 THEN << >> ELSE Pad(n \div 10, w - 1) \o << DigitChars[(n % 10) + 1] >>

\* n in decimal, as String(n) writes it
Str(n) == IF n < 10 THEN Pad(n, 1) ELSE Pad(n, 2)

\* calendar dates the caller may mean, and the offsets of the local zone from UTC in hours
Dates == { [y |-> y, m |-> m, d |-> d] : y \in { 1990, 2024 }, m \in { 1, 3, 10, 12 },
                                         d \in { 1, 23, 31 } }
TzOffsets == (-12)..14

Layouts == { "dd/MM/yyyy", "yyyy-MM-dd", "dd-MM-yyyy", "d/M/yyyy", "yyyy-MM-ddTHH:mm",
             "yyyy/MM/dd", "dd.MM.yyyy", " dd/MM/yyyy " }

\* the text of a date in a layout
Format(layout, D) ==
    CASE layout = "dd/MM/yyyy" -> Pad(D.d, 2) \o << "/" >> \o Pad(D.m, 2) \o << "/" >> \o Pad(D.y, 4)
      [] layout = "yyyy-MM-dd" -> Pad(D.y, 4) \o << "-" >> \o Pad(D.m, 2) \o << "-" >> \o Pad(D.d, 2)
      [] layout = "dd-MM-yyyy" -> Pad(D.d, 2) \o << "-" >> \o Pad(D.m, 2) \o << "-" >> \o Pad(D.y, 4)
      [] layout = "d/M/yyyy" -> Str(D.d) \o << "/" >> \o Str(D.m) \o << "/" >> \o Pad(D.y, 4)
      [] layout = "yyyy-MM-ddTHH:mm" ->
            Pad(D.y, 4) \o << "-" >> \o Pad(D.m, 2) \o << "-" >> \o Pad(D.d, 2)
               \o << "T", "0", "0", ":", "0", "0" >>
      [] layout = "yyyy/MM/dd" -> Pad(D.y, 4) \o << "/" >> \o Pad(D.m, 2) \o << "/" >> \o Pad(D.d, 2)
      [] layout = "dd.MM.yyyy" -> Pad(D.d, 2) \o << "." >> \o Pad(D.m, 2) \o << "." >> \o Pad(D.y, 4)
      [] OTHER -> << " " >> \o Pad(D.d, 2) \o << "/" >> \o Pad(D.m, 2) \o << "/" >> \o Pad(D.y, 4)
                     \o << " " >>

DateInputs == { Format(l, D) : l \in Layouts, D \in Dates }

\* input.trim()
RECURSIVE Trim(_)
Trim(t) ==
    IF t = << >> THEN t
    ELSE IF Head(t) = " " THEN Trim(Tail(t))
    ELSE IF t[Len(t)] = " " THEN Trim(SubSeq(t, 1, Len(t) - 1))
    ELSE t

NoDate == [y |-> 0, m |-> 0, d |-> 0]

\* the day before D
PrevDay(D) ==
    IF D.d > 1 THEN [D EXCEPT !.d = D.d - 1]
    ELSE LET pm == PrevMonth([y |-> D.y, m |-> D.m])
         IN [y |-> pm.y, m |-> pm.m, d |-> DaysIn(pm)]

\* /^\d{4}-\d{2}-\d{2}/.test(s): no anchor at the end
IsoPrefix(s) ==
    /\ Len(s) >= 10
    /\ AllDigits(SubSeq(s, 1, 4))
    /\ s[5] = "-"
    /\ AllDigits(SubSeq(s, 6, 7))
    /\ s[8] = "-"
    /\ AllDigits(SubSeq(s, 9, 10))

\* new Date(Date.parse(s)) read in the local zone, NoDate for NaN: the date-only form is
\* UTC midnight, the date-time form without an offset is local time
DateParse(s, tz) ==
    LET D == [y |-> Number(SubSeq(s, 1, 4)), m |-> Number(SubSeq(s, 6, 7)),
              d |-> Number(SubSeq(s, 9, 10))]
        valid == D.m \in 1..12 /\ D.d >= 1 /\ D.d <= DaysIn([y |-> D.y, m |-> D.m])
    IN IF ~valid THEN NoDate
       ELSE IF Len(s) = 10 THEN (IF tz < 0 THEN PrevDay(D) ELSE D)
       ELSE IF SubSeq(s, 11, Len(s)) = << "T", "0", "0", ":", "0", "0" >> THEN D
       ELSE NoDate

\* /^(\d{1,2})[\/\-](\d{1,2})[\/\-](\d{4})$/.exec(s): << day, month, year >> texts, << >> for null
DayFirst(s) ==
    LET splits == { << a, b >> \in (1..2) \X (1..2) :
                      /\ Len(s) = a + b + 6
                      /\ AllDigits(SubSeq(s, 1, a))
                      /\ s[a + 1] \in { "/", "-" }
                      /\ AllDigits(SubSeq(s, a + 2, a + b + 1))
                      /\ s[a + b + 2] \in { "/", "-" }
                      /\ AllDigits(SubSeq(s, a + b + 3, a + b + 6)) }
    IN IF splits = {} THEN << >>
       ELSE LET ab == CHOOSE x \in splits : TRUE
            IN << SubSeq(s, 1, ab[1]), SubSeq(s, ab[1] + 2, ab[1] + ab[2] + 1),
                  SubSeq(s, ab[1] + ab[2] + 3, ab[1] + ab[2] + 6) >>

\* new Date(y, m - 1, d) in local time: a month or day out of range rolls over
RECURSIVE LocalDate(_, _, _)
LocalDate(y, m, d) ==
    IF m < 1 THEN LocalDate(y - 1, m + 12, d)
    ELSE IF m > 12 THEN LocalDate(y + 1, m - 12, d)
    ELSE IF d < 1 THEN LET pm == PrevMonth([y |-> y, m |-> m])
                       IN LocalDate(pm.y, pm.m, d + DaysIn(pm))
    ELSE IF d > DaysIn([y |-> y, m |-> m])
    THEN LET nm == NextMonth([y |-> y, m |-> m])
         IN LocalDate(nm.y, nm.m, d - DaysIn([y |-> y, m |-> m]))
    ELSE [y |-> y, m |-> m, d |-> d]

\* parseDateLoose(input) for a string: the local date, NoDate when it throws
parseDateLoose(input, tz) ==
    LET s == Trim(input)
    IN IF IsoPrefix(s) /\ DateParse(s, tz) # NoDate THEN DateParse(s, tz)
       ELSE IF DayFirst(s) # << >>
       THEN LocalDate(Number(DayFirst(s)[3]), Number(DayFirst(s)[2]), Number(DayFirst(s)[1]))
       ELSE NoDate

\* a caller's text, on a machine in some time zone
InitDate ==
    /\ op = "idle"
    /\ pc = "idle"
    /\ result = "none"
    /\ value \in DateInputs
    /\ \E tz \in TzOffsets : cal = [NoCal EXCEPT !.tz = tz]
    /\ typed = NoText
    /\ opts = NoOpts
    /\ option = "exactRx"
    /\ i = 0
    /\ hasListbox = FALSE
    /\ clientHeight = 1
    /\ window = << >>
    /\ hasMore = FALSE
    /\ dlgOpen = FALSE
    /\ rows = << >>
    /\ row = 0
    /\ chip = NoText
    /\ trace = << >>
    /\ hist = NoHist
    /\ page = NoPage
    /\ grid = NoGrid

\* setDate: const target = parseDateLoose(value)
ParseDate ==
    /\ pc = "idle"
    /\ op' = "setDate"
    /\ LET target == parseDateLoose(value, cal.tz)
       IN IF target = NoDate
          THEN /\ Throw("UnparsableDate")
               /\ UNCHANGED cal
          ELSE /\ cal' = [cal EXCEPT !.want = [y |-> target.y, m |-> target.m],
                                     !.day = target.d]
               /\ pc' = "findDateHandles"
               /\ UNCHANGED result
    /\ UNCHANGED << value, opts, option, i, hasListbox, clientHeight, window, hasMore, dlgOpen,
                    rows, row, chip, typed, trace, hist, page, grid >>

NextDate == ParseDate

SpecDate == InitDate /\ [][NextDate]_vars

\* the date a caller of setDate asks for here, in either layout, on a machine at UTC
SetDateTargets == { [y |-> 2024, m |-> 1, d |-> 23] }
SetDateInputs == { Format(l, D) : l \in { "dd/MM/yyyy", "yyyy-MM-dd" }, D \in SetDateTargets }

InitSetDate ==
    /\ InitDate
    /\ value \in SetDateInputs
    /\ cal.tz = 0

\* the date setDate works towards, as parseDateLoose left it
Target == [y |-> cal.want.y, m |-> cal.want.m, d |-> cal.day]

\* `${dd}/${mm}/${yyyy}` and `${yyyy}-${mm}-${dd}` with dd and mm padded to two digits
au(D) == Pad(D.d, 2) \o << "/" >> \o Pad(D.m, 2) \o << "/" >> \o Pad(D.y, 4)
iso(D) == Pad(D.y, 4) \o << "-" >> \o Pad(D.m, 2) \o << "-" >> \o Pad(D.d, 2)

\* any text that is not empty passes
dateRxAnyText(D, text) == text # NoText

\* new RegExp(`${esc(au)}|${esc(iso)}`).test(text): either layout, anywhere in the text
dateRx(D, text) ==
    \/ Test([src |-> esc(au(D)), bol |-> FALSE, eol |-> FALSE], text)
    \/ Test([src |-> esc(iso(D)), bol |-> FALSE, eol |-> FALSE], text)

\* what the field may show after an entry: nothing, the date in either layout, the date with
\* a time after it, or another date
ReadBacks(D) ==
    { NoText, au(D), iso(D), au(D) \o << " ", "0", "0", ":", "0", "0" >>, au(PrevDay(D)) }

\* findDateHandles: the visible textbox; else the visible combobox, with an inner input or
\* not; else the aria-label container, with an input or not; else it throws
FindDateHandles ==
    /\ op = "setDate"
    /\ pc = "findDateHandles"
    /\ \E found \in { "textbox", "combobox", "container", "none" }, inner \in BOOLEAN :
          IF found = "none"
          THEN /\ Throw("ControlNotFound")
               /\ UNCHANGED page
          ELSE /\ page' = [page EXCEPT !.editable = (found = "textbox" \/ inner)]
               /\ pc' = IF found = "textbox" \/ inner THEN "typeDate" ELSE "openCalendar"
               /\ UNCHANGED result
    /\ UNCHANGED << op, value, opts, option, i, hasListbox, clientHeight, window, hasMore,
                    dlgOpen, rows, row, chip, typed, trace, hist, cal, grid >>

\* if (editableInput): click, fill(''), type(au), Enter, blur; read el.value back and return
\* when it is not empty and matches
TypeDate ==
    /\ op = "setDate"
    /\ pc = "typeDate"
    /\ trace' = trace \o << G("clickInput"), GName("fill", NoText), GName("type", au(Target)),
                            G("press Enter"), G("blur") >>
    /\ \E valueOk \in ReadBacks(Target) :
          /\ typed' = valueOk
          /\ IF valueOk # NoText /\ dateRx(Target, valueOk)
             THEN Return
             ELSE /\ pc' = "openCalendar"
                  /\ UNCHANGED result
    /\ UNCHANGED << op, value, opts, option, i, hasListbox, clientHeight, window, hasMore,
                    dlgOpen, rows, row, chip, hist, cal, page, grid >>

\* comboOrText.click().catch; openButton.click() when it is visible, else Alt+ArrowDown
OpenCalendar ==
    /\ op = "setDate"
    /\ pc = "openCalendar"
    /\ \E openVisible \in BOOLEAN :
          trace' = trace \o << G("clickInput"),
                               IF openVisible THEN G("clickOpenButton")
                                              ELSE G("press Alt+ArrowDown") >>
    /\ pc' = "calExpect"
    /\ UNCHANGED << op, result, value, opts, option, i, hasListbox, clientHeight, window,
                    hasMore, dlgOpen, rows, row, chip, typed, hist, cal, page, grid >>

\* expect(editableInput).toHaveValue(rx), or expect(comboOrText).toHaveText(rx)
VerifyDate ==
    /\ op = "setDate"
    /\ pc = "verify"
    /\ \E shown \in ReadBacks(Target) :
          /\ typed' = shown
          /\ IF dateRx(Target, shown) THEN Return ELSE Throw("ValueMismatch")
    /\ UNCHANGED << op, value, opts, option, i, hasListbox, clientHeight, window, hasMore,
                    dlgOpen, rows, row, chip, trace, hist, cal, page, grid >>

NextSetDate ==
    \/ ParseDate
    \/ FindDateHandles
    \/ TypeDate
    \/ OpenCalendar
    \/ CalExpect
    \/ CalPlan
    \/ CalHop
    \/ CalLoopExit
    \/ CalPickDay
    \/ VerifyDate

SpecSetDate == InitSetDate /\ [][NextSetDate]_vars


(* ------ clearLookupValue (lookup.ts), clearIfPossible, clearLookup (forms) ------ *)

ClearOps == { "clearLookupValue", "clearIfPossible", "clearLookup" }
ClearGestures == { "press Control+A", "press Backspace", "clickInput", "fill", "clickTriple",
                   "clickClearBtn" }

\* the field during a clear: its chip, the text in its input, whether the text is selected,
\* and the error that ended the clear, if any
Field(c, t) == [chip |-> c, typed |-> t, sel |-> FALSE, err |-> ""]

\* the field with its content removed
Emptied(f) ==
    [f EXCEPT !.chip = IF page.chipClears THEN NoText ELSE @, !.typed = NoText, !.sel = FALSE]

\* what a gesture that the control accepts does to the field
After(g, f) ==
    CASE g \in { "press Control+A", "clickTriple" } -> [f EXCEPT !.sel = TRUE]
      [] g = "clickInput" -> [f EXCEPT !.sel = FALSE]
      [] g = "press Backspace" ->
            IF f.sel THEN Emptied(f)
            ELSE [f EXCEPT !.typed = IF @ = << >> THEN @ ELSE SubSeq(@, 1, Len(@) - 1)]
      [] g = "fill" -> Emptied(f)
      [] OTHER -> [f EXCEPT !.chip = IF page.chipClears THEN NoText ELSE @]

\* await gesture: a gesture the control rejects ends the clear with an error
Do(g, f) ==
    IF f.err # "" THEN f
    ELSE IF g \in page.fails THEN [f EXCEPT !.err = "GestureFailed"]
    ELSE After(g, f)

\* the catch left out
TryRethrown(g, f) == Do(g, f)

\* try { await gesture } catch {}  and  await gesture.catch(() => {})
Try(g, f) ==
    IF f.err # "" THEN f
    ELSE IF g \in page.fails THEN f
    ELSE After(g, f)

\* clearLookupValue(input), on the field
ClearLookupValueOn(f) ==
    Try("fill", Try("clickInput", Try("press Backspace", Try("press Control+A", f))))

\* clearIfPossible(input), on the field
ClearIfPossibleOn(f) ==
    IF "fill" \notin page.fails
    THEN Try("fill", f)
    ELSE Try("press Backspace", Try("clickTriple", f))

\* the gestures clearIfPossible issues
clearIfPossible ==
    << GName("fill", NoText) >>
       \o (IF "fill" \in page.fails THEN << G("clickTriple"), G("press Backspace") >> ELSE << >>)

\* await expect(container.getByText(...)).not.toBeVisible({ timeout: 2000 })
expectNoChip(f) ==
    IF f.err = "" /\ f.chip # NoText THEN [f EXCEPT !.err = "ChipRemains"] ELSE f

\* .catch(() => {}) on that expectation
caught(f) == IF f.err = "ChipRemains" THEN [f EXCEPT !.err = ""] ELSE f

\* clearLookup(page, label), on the field: the clear button shows while the field has a chip
ClearLookupOn(f) ==
    IF ~page.visible THEN [f EXCEPT !.err = "ControlNotFound"]
    ELSE caught(expectNoChip(IF f.chip # NoText THEN Do("clickClearBtn", f) ELSE f))

\* the gestures clearLookup issues
clearLookup(f) ==
    IF page.visible /\ f.chip # NoText THEN << G("clickClearBtn") >> ELSE << >>

\* a field, empty or not, and a control that rejects some of the gestures
InitClear ==
    /\ op = "idle"
    /\ pc = "idle"
    /\ result = "none"
    /\ value = NoText
    /\ chip \in { NoText, <<"x">> }
    /\ typed \in { NoText, <<"q">>, <<"q", "r">> }
    /\ page \in [fails : SUBSET ClearGestures, chipClears : BOOLEAN, visible : BOOLEAN,
                  control : { "visible" }, role : { "combobox" }, checked : { FALSE },
                  selected : { {} }, editable : { FALSE }, hidden : { {} },
                  other : { NoText }, otherFirst : { FALSE }]
    /\ hist = [NoHist EXCEPT !.before = chip, !.beforeTyped = typed]
    /\ opts = NoOpts
    /\ option = "exactRx"
    /\ i = 0
    /\ hasListbox = FALSE
    /\ clientHeight = 1
    /\ window = << >>
    /\ hasMore = FALSE
    /\ dlgOpen = FALSE
    /\ rows = << >>
    /\ row = 0
    /\ trace = << >>
    /\ cal = NoCal
    /\ grid = NoGrid

\* one application of a clear that leaves the field as `f` after issuing `gestures`;
\* the same clear may be applied a second time
Cleared(o, f, gestures) ==
    /\ pc \in { "idle", "once" }
    /\ pc = "once" => op = o
    /\ op' = o
    /\ chip' = f.chip
    /\ typed' = f.typed
    /\ result' = IF f.err = "" THEN "ok" ELSE f.err
    /\ trace' = trace \o gestures
    /\ pc' = IF pc = "idle" THEN "once" ELSE "twice"
    /\ hist' = IF pc = "idle" THEN [hist EXCEPT !.once = << f.chip, f.typed, result' >>] ELSE hist
    /\ UNCHANGED << value, opts, option, i, hasListbox, clientHeight, window, hasMore, dlgOpen,
                    rows, row, cal, page, grid >>

CallClearLookupValue ==
    Cleared("clearLookupValue", ClearLookupValueOn(Field(chip, typed)), clearLookupValue)

CallClearIfPossible ==
    Cleared("clearIfPossible", ClearIfPossibleOn(Field(chip, typed)), clearIfPossible)

CallClearLookup ==
    Cleared("clearLookup", ClearLookupOn(Field(chip, typed)), clearLookup(Field(chip, typed)))

NextClear ==
    \/ CallClearLookupValue
    \/ CallClearIfPossible
    \/ CallClearLookup

SpecClear == InitClear /\ [][NextClear]_vars

(* --- src/powerapps-uci-forms.ts: setText, setNumber, setOption, setMultiOption --- *)

FieldOps == { "setText", "setNumber", "setOption", "setMultiOption" }

NumberTexts == { << "1", "2" >>, << "1", ".", "5" >>, << "-", "3" >>,
                 << "1", "2", "3", "4", ".", "5" >> }

CallSetText ==
    /\ pc = "idle"
    /\ value' \in Values
    /\ op' = "setText"
    /\ pc' = "resolve"
    /\ UNCHANGED << result, opts, option, i, hasListbox, clientHeight, window, hasMore, dlgOpen,
                    rows, row, chip, typed, trace, hist, cal, page, grid >>

\* const v = String(value)
CallSetNumber ==
    /\ pc = "idle"
    /\ value' \in NumberTexts
    /\ op' = "setNumber"
    /\ pc' = "resolve"
    /\ UNCHANGED << result, opts, option, i, hasListbox, clientHeight, window, hasMore, dlgOpen,
                    rows, row, chip, typed, trace, hist, cal, page, grid >>

CallSetOption ==
    /\ pc = "idle"
    /\ value' \in Values
    /\ \E e \in BOOLEAN : opts' = [NoOpts EXCEPT !.exact = e]
    /\ op' = "setOption"
    /\ pc' = "resolve"
    /\ UNCHANGED << result, option, i, hasListbox, clientHeight, window, hasMore, dlgOpen,
                    rows, row, chip, typed, trace, hist, cal, page, grid >>

\* values: string[]; the options already selected are the page's
CallSetMultiOption ==
    /\ pc = "idle"
    /\ value' \in SeqsUpTo(Values, 2) \ { << >> }
    /\ \E sel \in SUBSET Names :
          /\ page' = [page EXCEPT !.selected = sel]
          /\ hist' = [hist EXCEPT !.selected = sel]
    /\ op' = "setMultiOption"
    /\ pc' = "resolve"
    /\ UNCHANGED << result, opts, option, i, hasListbox, clientHeight, window, hasMore, dlgOpen,
                    rows, row, chip, typed, trace, cal, grid >>

\* findTextbox, findCombobox: await expect(control).toBeVisible()
FieldResolve ==
    /\ op \in FieldOps
    /\ pc = "resolve"
    /\ IF page.control = "visible"
       THEN /\ pc' = "act"
            /\ UNCHANGED result
       ELSE Throw("ControlNotFound")
    /\ UNCHANGED << op, value, opts, option, i, hasListbox, clientHeight, window, hasMore,
                    dlgOpen, rows, row, chip, typed, trace, hist, cal, page, grid >>

\* new RegExp(`^${esc(value)}$`), as toHaveValue applies it
textRx(v) == [src |-> esc(v), bol |-> TRUE, eol |-> TRUE]

\* clearIfPossible, type, blur; expect(tb).toHaveValue(/^value$/)
SetTextAct ==
    /\ op = "setText"
    /\ pc = "act"
    /\ trace' = trace \o clearIfPossible \o << GName("type", value), G("blur") >>
    /\ typed' \in { value, NoText }
    /\ IF Test(textRx(value), typed') /\ typed' = value
       THEN Return
       ELSE Throw("ValueMismatch")
    /\ UNCHANGED << op, value, opts, option, i, hasListbox, clientHeight, window, hasMore,
                    dlgOpen, rows, row, chip, hist, cal, page, grid >>

\* v.replace(/[^\d.-]/g, '')
RECURSIVE digitsOf(_)
digitsOf(v) ==
    IF v = << >> THEN << >>
    ELSE (IF IsDigit(Head(v)) \/ Head(v) \in { ".", "-" } THEN << Head(v) >> ELSE << >>)
         \o digitsOf(Tail(v))

\* digits.replace('.', '\\.'): the first point only
RECURSIVE escapeFirstPoint(_)
escapeFirstPoint(t) ==
    IF t = << >> THEN << >>
    ELSE IF Head(t) = "." THEN << "\\", "." >> \o Tail(t)
    ELSE << Head(t) >> \o escapeFirstPoint(Tail(t))

numberRx(v) == [src |-> escapeFirstPoint(digitsOf(v)), bol |-> FALSE, eol |-> FALSE]

\* the text with a comma before the last three digits of its whole part, when it has more
Grouped(v) ==
    LET points == { n \in 1..Len(v) : v[n] = "." }
        e == IF points = {} THEN Len(v) ELSE Least(points) - 1
    IN IF e > 3 /\ IsDigit(v[e - 3])
       THEN SubSeq(v, 1, e - 3) \o << "," >> \o SubSeq(v, e - 2, Len(v))
       ELSE v

\* what the field may display after the number was typed: the text as typed, with a
\* thousands separator, with another digit after it, or nothing
Displays(v) == { v, Grouped(v), Append(v, "9"), NoText }

\* clearIfPossible, type, blur; expect(tb).toHaveValue(new RegExp(digits))
SetNumberAct ==
    /\ op = "setNumber"
    /\ pc = "act"
    /\ trace' = trace \o clearIfPossible \o << GName("type", value), G("blur") >>
    /\ typed' \in Displays(value)
    /\ IF Test(numberRx(value), typed')
       THEN Return
       ELSE Throw("ValueMismatch")
    /\ UNCHANGED << op, value, opts, option, i, hasListbox, clientHeight, window, hasMore,
                    dlgOpen, rows, row, chip, hist, cal, page, grid >>

\* cb.click(); getListbox; the first option matching rx, expected visible, clicked;
\* expect(cb).toHaveText(rx)
SetOptionAct ==
    /\ op = "setOption"
    /\ pc = "act"
    /\ \E lb \in BOOLEAN :
          /\ hasListbox' = lb
          /\ IF ~lb
             THEN /\ trace' = Append(trace, G("clickInput"))
                  /\ Throw("ListboxNotVisible")
                  /\ UNCHANGED << window, chip, typed >>
             ELSE \E w \in Windows :
                  LET rx == valueRx(value, opts.exact)
                  IN /\ window' = w
                     /\ IF First(w, rx) = 0
                        THEN /\ trace' = Append(trace, G("clickInput"))
                             /\ Throw("OptionNotFound")
                             /\ UNCHANGED << chip, typed >>
                        ELSE /\ ClickOption(w[First(w, rx)], Append(trace, G("clickInput")))
                             /\ IF chip' # NoText /\ Test(rx, chip')
                                THEN Return
                                ELSE Throw("ValueNotShown")
    /\ UNCHANGED << op, value, opts, option, i, clientHeight, hasMore, dlgOpen, rows, row,
                    hist, cal, page, grid >>

\* the loop over values: each option expected visible, clicked unless aria-selected is true
\* a click on an option of a multi-select listbox toggles its selected state
Toggle(selected, name) ==
    IF name \in selected THEN selected \ { name } ELSE selected \cup { name }

NeedsClickAlways(selected, name) == TRUE

\* const selected = await opt.getAttribute('aria-selected'); if (selected !== 'true') ...
NeedsClick(selected, name) == name \notin selected

RECURSIVE MultiPick(_, _, _)
MultiPick(vals, w, st) ==
    IF vals = << >> \/ st.err # "" THEN st
    ELSE LET n == First(w, exactRx(Head(vals)))
         IN IF n = 0 THEN [st EXCEPT !.err = "OptionNotFound"]
            ELSE IF ~NeedsClick(st.selected, w[n]) THEN MultiPick(Tail(vals), w, st)
            ELSE MultiPick(Tail(vals), w,
                           [st EXCEPT !.selected = Toggle(@, w[n]),
                                      !.clicks = Append(@, GName("clickOption", w[n]))])

\* cb.click(); getListbox; the loop; Escape; every value expected among the tags shown
SetMultiOptionAct ==
    /\ op = "setMultiOption"
    /\ pc = "act"
    /\ \E lb \in BOOLEAN :
          /\ hasListbox' = lb
          /\ IF ~lb
             THEN /\ trace' = Append(trace, G("clickInput"))
                  /\ Throw("ListboxNotVisible")
                  /\ UNCHANGED << window, page >>
             ELSE \E w \in Windows :
                  LET st == MultiPick(value, w, [err |-> "", selected |-> page.selected,
                                                 clicks |-> << >>])
                  IN /\ window' = w
                     /\ page' = [page EXCEPT !.selected = st.selected]
                     /\ IF st.err # ""
                        THEN /\ trace' = Append(trace, G("clickInput")) \o st.clicks
                             /\ Throw(st.err)
                        ELSE /\ trace' = Append(trace, G("clickInput")) \o st.clicks
                                            \o << G("press Escape") >>
                             /\ IF \A n \in 1..Len(value) :
                                      \E t \in st.selected : Test(exactRx(value[n]), t)
                                THEN Return
                                ELSE Throw("ValueNotShown")
    /\ UNCHANGED << op, value, opts, option, i, clientHeight, hasMore, dlgOpen, rows, row,
                    chip, typed, hist, cal, grid >>

(* ---------------- src/powerapps-uci-forms.ts: setBoolean ------------------ *)

Roles == { "combobox", "checkbox", "switch" }
BoolNames == { << "Y", "e", "s" >>, << "N", "o" >>, << "N", "o", "n", "e" >> }
BoolWindows == SeqsUpTo(BoolNames, MaxWin)

\* const targetName = value ? /yes|true|on/i : /no|false|off/i
targetName(v) ==
    IF v THEN { << "y", "e", "s" >>, << "t", "r", "u", "e" >>, << "o", "n" >> }
    ELSE { << "n", "o" >>, << "f", "a", "l", "s", "e" >>, << "o", "f", "f" >> }

\* targetName.test(text)
TargetTest(v, text) == \E w \in targetName(v) : Includes(Fold(text), w)

FirstTarget(names, v) ==
    LET hits == { n \in 1..Len(names) : TargetTest(v, names[n]) }
    IN IF hits = {} THEN 0 ELSE CHOOSE n \in hits : \A m \in hits : n <= m

\* locator.count() of getByRole(role, { name: labelRx(label) })
\* await maybeX.count(): a control of role r with the label is attached to the page, whether
\* it is visible (page.role, page.control) or one of the renderings left in the tree unseen
HasRole(r) == (page.control # "absent" /\ page.role = r) \/ r \in page.hidden
RoleVisible(r) == page.control = "visible" /\ page.role = r

\* the call; the control with the label has one of the three roles and a current state, and
\* renderings of the other roles may be attached to the page without being visible
CallSetBoolean ==
    /\ pc = "idle"
    /\ value' \in BOOLEAN
    /\ \E r \in Roles, c \in BOOLEAN, h \in SUBSET Roles :
          /\ r \notin h
          /\ page' = [page EXCEPT !.role = r, !.checked = c, !.hidden = h]
    /\ op' = "setBoolean"
    /\ pc' = "act"
    /\ UNCHANGED << result, opts, option, i, hasListbox, clientHeight, window, hasMore, dlgOpen,
                    rows, row, chip, typed, trace, hist, cal, grid >>

\* if (checked !== value) await control.click(): a control that is not visible is never
\* clicked, the click times out; st is [err, checked, clicks]
ToggleIfNeeded(r, checked, want, takes) ==
    IF checked = want THEN [err |-> "", checked |-> checked, clicks |-> << >>]
    ELSE IF ~RoleVisible(r)
    THEN [err |-> "NotActionable", checked |-> checked, clicks |-> << >>]
    ELSE [err |-> "", checked |-> IF takes THEN want ELSE checked,
          clicks |-> << G("clickToggle") >>]

\* isChecked() / getAttribute('aria-checked') of the first control of role r: the state of
\* the field when that control is the visible one, anything for a rendering left unseen
CheckedStates(r) == IF page.role = r THEN { page.checked } ELSE BOOLEAN

\* the three attempts of setBoolean, in their order
SetBooleanAct ==
    /\ op = "setBoolean"
    /\ pc = "act"
    /\ IF HasRole("combobox")
       THEN \* maybeCombo.click(); getListbox; opt expected visible, clicked; toHaveText
            /\ UNCHANGED page
            /\ IF ~RoleVisible("combobox")
               THEN /\ Throw("NotActionable")
                    /\ UNCHANGED << hasListbox, window, chip, typed, trace >>
               ELSE \E lb \in BOOLEAN :
                    /\ hasListbox' = lb
                    /\ IF ~lb
                       THEN /\ trace' = Append(trace, G("clickInput"))
                            /\ Throw("ListboxNotVisible")
                            /\ UNCHANGED << window, chip, typed >>
                       ELSE \E w \in BoolWindows :
                            /\ window' = w
                            /\ IF FirstTarget(w, value) = 0
                               THEN /\ trace' = Append(trace, G("clickInput"))
                                    /\ Throw("OptionNotFound")
                                    /\ UNCHANGED << chip, typed >>
                               ELSE /\ ClickOption(w[FirstTarget(w, value)],
                                                   Append(trace, G("clickInput")))
                                    /\ IF TargetTest(value, chip')
                                       THEN Return
                                       ELSE Throw("ValueNotShown")
       ELSE IF HasRole("checkbox")
       THEN \* isChecked; click; expect(maybeCheckbox)[value ? 'toBeChecked' : 'not.toBeChecked']()
            \E takes \in BOOLEAN, checked \in CheckedStates("checkbox") :
            LET st == ToggleIfNeeded("checkbox", checked, value, takes)
            IN /\ trace' = trace \o st.clicks
               /\ page' = [page EXCEPT !.checked = IF page.role = "checkbox" THEN st.checked ELSE @]
               /\ IF st.err # "" THEN Throw(st.err)
                  ELSE IF ~value THEN Throw("TypeError")
                  ELSE IF st.checked = value THEN Return
                  ELSE Throw("StateNotSet")
               /\ UNCHANGED << hasListbox, window, chip, typed >>
       ELSE IF HasRole("switch")
       THEN \* aria-checked; click; toHaveAttribute('aria-checked', ...)
            \E takes \in BOOLEAN, checked \in CheckedStates("switch") :
            LET st == ToggleIfNeeded("switch", checked, value, takes)
            IN /\ trace' = trace \o st.clicks
               /\ page' = [page EXCEPT !.checked = IF page.role = "switch" THEN st.checked ELSE @]
               /\ IF st.err # "" THEN Throw(st.err)
                  ELSE IF st.checked = value THEN Return
                  ELSE Throw("StateNotSet")
               /\ UNCHANGED << hasListbox, window, chip, typed >>
       ELSE /\ Throw("ControlNotFound")
            /\ UNCHANGED << hasListbox, window, chip, typed, trace, page >>
    /\ UNCHANGED << op, value, opts, option, i, clientHeight, hasMore, dlgOpen, rows, row,
                    hist, cal, grid >>

(* ----------------- src/powerapps-uci-forms.ts: getValue ------------------- *)

\* what a textbox under the label may hold while the combobox shows the chosen option
TextboxValues == { NoText, << "a", "b" >>, << "c" >> }

\* getValue(label) after setOption(label, value) returned: the textbox of that name when
\* there is one (inputValue), else the combobox (textContent().trim()), else the aria-label
\* container, else it throws; the combobox setOption resolved is on the page
GetValue ==
    /\ op = "setOption"
    /\ pc = "done"
    /\ result = "ok"
    /\ op' = "getValue"
    /\ \E tb \in BOOLEAN, v \in TextboxValues :
          hist' = [hist EXCEPT !.returned = IF tb THEN v
                                            ELSE IF page.control # "absent" THEN Trim(chip)
                                            ELSE NoText]
    /\ UNCHANGED << pc, result, value, opts, option, i, hasListbox, clientHeight, window,
                    hasMore, dlgOpen, rows, row, chip, typed, trace, cal, page, grid >>

Next ==
    \/ CallSelectLookupValue
    \/ findLookup
    \/ DirectEntry
    \/ ProbeExact
    \/ ProbeStarts
    \/ ScrollStep
    \/ Escalate
    \/ CallForceLookupDialogSelection
    \/ ForceEntry
    \/ DlgTrigger
    \/ DlgRow
    \/ DlgCommit
    \/ DlgExpectHidden
    \/ CallSetLookup
    \/ SLResolve
    \/ SLEntry
    \/ SLPick
    \/ SLDlgRow
    \/ SLDblclick
    \/ SLExpectHidden
    \/ SLVerify
    \/ CallSetText
    \/ CallSetNumber
    \/ CallSetOption
    \/ CallSetMultiOption
    \/ FieldResolve
    \/ SetTextAct
    \/ SetNumberAct
    \/ SetOptionAct
    \/ SetMultiOptionAct
    \/ CallSetBoolean
    \/ SetBooleanAct
    \/ GetValue

Spec == Init /\ [][Next]_vars

(* -------------------- the resolvers' accessible-name patterns ------------- *)

Resolvers == { "findLookup", "findTextbox", "findCombobox", "setLookup", "findDateHandles" }

\* the optional group that follows the escaped label in a resolver's pattern
Suffix(r) ==
    CASE r \in { "findLookup", "findTextbox" } -> "none"         \* ^label$
      [] r \in { "findCombobox", "setLookup" } -> "lookup"       \* ^label(,\s*Lookup)?$
      [] OTHER -> "required"                                     \* ^label(\s*\*)?$

Spaces(t) == \A n \in 1..Len(t) : t[n] = " "

\* the rest of a name, after the label, against the optional group
SuffixTest(kind, t) ==
    \/ t = << >>
    \/ /\ kind = "lookup"
       /\ Len(t) >= 7
       /\ t[1] = ","
       /\ Spaces(SubSeq(t, 2, Len(t) - 6))
       /\ Fold(SubSeq(t, Len(t) - 5, Len(t))) = Fold(<< "L", "o", "o", "k", "u", "p" >>)
    \/ /\ kind = "required"
       /\ Len(t) >= 1
       /\ t[Len(t)] = "*"
       /\ Spaces(SubSeq(t, 1, Len(t) - 1))

\* getByRole(role, { name: rx }) of the resolver r for `label`, against an accessible name
Resolves(r, label, name) ==
    \E k \in 0..Len(name) :
       /\ Test(exactRx(label), SubSeq(name, 1, k))
       /\ SuffixTest(Suffix(r), SubSeq(name, k + 1, Len(name)))

Labels == Values \cup { <<"A", "b">> }
Variants == { "label", "LABEL", "label *", "label*", "label, Lookup", "label,lookup",
              "labelx", "xlabel", "label, Lookup x" }

\* an accessible name a control for the label may carry
NameOf(label, variant) ==
    CASE variant = "label" -> label
      [] variant = "LABEL" -> << "A" >> \o Tail(label)
      [] variant = "label *" -> label \o << " ", "*" >>
      [] variant = "label*" -> label \o << "*" >>
      [] variant = "label, Lookup" -> label \o << ",", " ", "L", "o", "o", "k", "u", "p" >>
      [] variant = "label,lookup" -> label \o << ",", "l", "o", "o", "k", "u", "p" >>
      [] variant = "labelx" -> label \o << "x" >>
      [] variant = "xlabel" -> << "x" >> \o label
      [] OTHER -> label \o << ",", " ", "L", "o", "o", "k", "u", "p", " ", "x" >>

\* a label and the accessible name of a control on the page
InitLabel ==
    /\ op = "idle"
    /\ pc = "idle"
    /\ result = "none"
    /\ value \in Labels
    /\ \E v \in Variants : typed = NameOf(value, v)
    /\ opts = NoOpts
    /\ option = "exactRx"
    /\ i = 0
    /\ hasListbox = FALSE
    /\ clientHeight = 1
    /\ window = << >>
    /\ hasMore = FALSE
    /\ dlgOpen = FALSE
    /\ rows = << >>
    /\ row = 0
    /\ chip = NoText
    /\ trace = << >>
    /\ hist = NoHist
    /\ cal = NoCal
    /\ page = NoPage
    /\ grid = NoGrid

\* the resolver r looks for the control named `typed` by the label `value`
Resolve(r) ==
    /\ pc = "idle"
    /\ op' = r
    /\ result' = IF Resolves(r, value, typed) THEN "accepts" ELSE "rejects"
    /\ pc' = "done"
    /\ UNCHANGED << value, opts, option, i, hasListbox, clientHeight, window, hasMore, dlgOpen,
                    rows, row, chip, typed, trace, hist, cal, page, grid >>

NextLabel == \E r \in Resolvers : Resolve(r)

SpecLabel == InitLabel /\ [][NextLabel]_vars

(* ------------- the matchers built from a caller's literal value ----------- *)

MaxRxLen == 2
RxChars == { "a", "b", "B", "." }
RxTexts == SeqsUpTo(RxChars, MaxRxLen)

\* grid: function escapeForRx(s), the same replacement as esc
escapeForRx(s) == esc(s)

\* grid: rx(v, partial) for a string v
gridRx(v, partial) == [src |-> escapeForRx(v), bol |-> ~partial, eol |-> ~partial]

Matchers == { "lookup.exactRx", "lookup.startsRx", "setOption.exact", "setOption.nonExact",
              "setLookup.exact", "setLookup.nonExact", "grid.rx", "grid.rx.partial" }

\* the pattern each of them compiles for the value v
MatcherRx(m, v) ==
    CASE m = "lookup.exactRx" -> exactRx(v)
      [] m = "lookup.startsRx" -> startsRx(v)
      [] m \in { "setOption.exact", "setLookup.exact" } -> valueRx(v, TRUE)
      [] m \in { "setOption.nonExact", "setLookup.nonExact" } -> valueRx(v, FALSE)
      [] m = "grid.rx" -> gridRx(v, FALSE)
      [] OTHER -> gridRx(v, TRUE)

\* a caller's value and a text on the page
InitRx ==
    /\ op = "idle"
    /\ pc = "idle"
    /\ result = "none"
    /\ value \in RxTexts
    /\ typed \in RxTexts
    /\ opts = NoOpts
    /\ option = "exactRx"
    /\ i = 0
    /\ hasListbox = FALSE
    /\ clientHeight = 1
    /\ window = << >>
    /\ hasMore = FALSE
    /\ dlgOpen = FALSE
    /\ rows = << >>
    /\ row = 0
    /\ chip = NoText
    /\ trace = << >>
    /\ hist = NoHist
    /\ cal = NoCal
    /\ page = NoPage
    /\ grid = NoGrid

\* rx.test(text) for the matcher m built from `value`, against the text `typed`
Match(m) ==
    /\ pc = "idle"
    /\ op' = m
    /\ result' = IF Test(MatcherRx(m, value), typed) THEN "match" ELSE "nomatch"
    /\ pc' = "done"
    /\ UNCHANGED << value, opts, option, i, hasListbox, clientHeight, window, hasMore, dlgOpen,
                    rows, row, chip, typed, trace, hist, cal, page, grid >>

NextRx == \E m \in Matchers : Match(m)

SpecRx == InitRx /\ [][NextRx]_vars

(* ---------- src/powerapps-uci-grid.ts: findRowByCell and its callers -------- *)

MaxGridRows == 2
MaxGridScrolls == 2
DefaultMaxScrolls == 30

\* the grid's columns: logical name and aria-colindex, in order; the header texts
GridCols == << [logical |-> "name", colindex |-> 2], [logical |-> "city", colindex |-> 3] >>
HeaderText == << << "A" >>, << "B" >> >>

\* the rows of the view: one text per column
CellTexts == { << "a" >>, << "a", "b" >> }
GridRowKinds == { << s, t >> : s \in CellTexts, t \in CellTexts }
GridContents == SeqsUpTo(GridRowKinds, MaxGridRows)

gridOps == { "findRowByCell", "openRecordByCell", "selectRowByCell" }

\* `${colIndex}` where colIndex = header.getAttribute('aria-colindex'), a pending promise
colIndexText(header) == "[object Promise]"

\* gridCellLocator: the columns whose gridcells the selector matches
gridCellLocator(g) ==
    IF g.by = "logicalName"
    THEN { n \in 1..Len(GridCols) : GridCols[n].logical = GridCols[g.column].logical }
    ELSE LET header == Least({ n \in 1..Len(GridCols) :
                                 Test(gridRx(HeaderText[g.column], FALSE), HeaderText[n]) })
         IN { n \in 1..Len(GridCols) : ToString(GridCols[n].colindex) = colIndexText(header) }

\* the rows rendered at a scroll position: the virtualized grid keeps one row in view
Rendered(g) == { r \in 1..Len(g.cells) : r = g.pos + 1 }

\* cellColumn.filter({ hasText: valueRx }).first(), visible: its row, 0 when there is none
candidateCell(g) ==
    Least({ r \in Rendered(g) :
              \E n \in gridCellLocator(g) : Test(gridRx(g.value, g.partial), g.cells[r][n]) })

\* a row in view has a cell of the asked column matching the value
InView(g) ==
    \E r \in Rendered(g) : Test(gridRx(g.value, g.partial), g.cells[r][g.column])

\* the call: the query, the scroll bound (the callers pass none, so the default applies),
\* the view; await expect(grid).toBeVisible()
CallFindRowByCell ==
    /\ pc = "idle"
    /\ op' \in gridOps
    /\ \E v \in CellTexts, c \in 1..Len(GridCols), by \in { "logicalName", "columnHeader" },
          partial \in BOOLEAN, cells \in GridContents, body \in BOOLEAN,
          n \in 0..MaxGridScrolls, gridVisible \in BOOLEAN :
          LET g == [NoGrid EXCEPT !.value = v, !.column = c, !.by = by, !.partial = partial,
                                  !.cells = cells, !.body = body,
                                  !.maxScrolls = IF op' = "findRowByCell" THEN n
                                                 ELSE DefaultMaxScrolls]
          IN /\ op' # "findRowByCell" => n = 0
             /\ IF gridVisible
                THEN /\ grid' = [g EXCEPT !.firstAt = IF InView(g) THEN 0 ELSE -1]
                     /\ pc' = "gridLoop"
                     /\ UNCHANGED result
                ELSE /\ grid' = g
                     /\ Throw("GridNotVisible")
    /\ UNCHANGED << value, opts, option, i, hasListbox, clientHeight, window, hasMore, dlgOpen,
                    rows, row, chip, typed, trace, hist, cal, page >>

\* while (attempts <= maxScrolls)
GridLoopGuard(attempts, maxScrolls) == attempts <= maxScrolls

\* one iteration: probe the column; return the row of a visible match, else scroll the grid
\* body (or wheel the page), scrollIntoViewIfNeeded, attempts += 1
GridStep ==
    /\ op \in gridOps
    /\ pc = "gridLoop"
    /\ GridLoopGuard(grid.attempts, grid.maxScrolls)
    /\ IF candidateCell(grid) # 0
       THEN /\ grid' = [grid EXCEPT !.probes = @ + 1, !.row = candidateCell(grid)]
            /\ IF op = "findRowByCell"
               THEN Return
               ELSE /\ pc' = "rowAct"
                    /\ UNCHANGED result
       ELSE /\ \E moved \in BOOLEAN :
                  LET g == [grid EXCEPT !.probes = @ + 1, !.scrolls = @ + 1,
                                        !.attempts = @ + 1,
                                        !.pos = IF moved /\ @ + 1 < Len(grid.cells)
                                                THEN @ + 1 ELSE @]
                  IN grid' = [g EXCEPT !.firstAt = IF @ = -1 /\ InView(g) THEN g.scrolls
                                                    ELSE @]
            /\ UNCHANGED << pc, result >>
    /\ UNCHANGED << op, value, opts, option, i, hasListbox, clientHeight, window, hasMore,
                    dlgOpen, rows, row, chip, typed, trace, hist, cal, page >>

\* the loop is left: throw new Error(`... after ${maxScrolls} scrolls.`)
GridGiveUp ==
    /\ op \in gridOps
    /\ pc = "gridLoop"
    /\ ~GridLoopGuard(grid.attempts, grid.maxScrolls)
    /\ Throw("RowNotFound")
    /\ UNCHANGED << op, value, opts, option, i, hasListbox, clientHeight, window, hasMore,
                    dlgOpen, rows, row, chip, typed, trace, hist, cal, page, grid >>

\* openRecordByCell: click the link in the row, else the row; selectRowByCell: click the
\* row's checkbox, else its "select row" button, else its first cell
RowAct ==
    /\ op \in { "openRecordByCell", "selectRowByCell" }
    /\ pc = "rowAct"
    /\ \E first \in BOOLEAN, second \in BOOLEAN :
          trace' = Append(trace,
                      IF op = "openRecordByCell"
                      THEN (IF first THEN G("clickLink") ELSE G("clickRow"))
                      ELSE (IF first THEN G("clickCheckbox")
                            ELSE IF second THEN G("clickSelectRow") ELSE G("clickFirstCell")))
    /\ Return
    /\ UNCHANGED << op, value, opts, option, i, hasListbox, clientHeight, window, hasMore,
                    dlgOpen, rows, row, chip, typed, hist, cal, page, grid >>

NextGrid ==
    \/ CallFindRowByCell
    \/ GridStep
    \/ GridGiveUp
    \/ RowAct

\* no call made yet; the fields of a form play no part in the grid
InitGrid == InitRx /\ value = NoText /\ typed = NoText

SpecGrid == InitGrid /\ [][NextGrid]_vars

(* ------------------------------ properties ------------------------------- *)

Returned == pc = "done" /\ result = "ok"
Raised == pc = "done" /\ result # "ok"

LastIndex(g) ==
    LET at == { n \in 1..Len(trace) : trace[n].g = g }
    IN IF at = {} THEN 0 ELSE CHOOSE n \in at : \A m \in at : m <= n

\* the name of the inline option that was clicked
ClickedName == trace[LastIndex("clickOption")].name

DialogTriggers == Count("clickMoreBtn") + Count("press Alt+ArrowDown")
DialogPath == DialogTriggers > 0 \/ Has("clickMoreOption")
RowCommitted == Has("dblclickRow") \/ Has("clickConfirm")

HasExact(names, v) == \E n \in 1..Len(names) : SameText(names[n], v)
HasLonger(names, v) == \E n \in 1..Len(names) : LongerWithPrefix(names[n], v)

\* C1: whenever the rendered window holds both an option equal to the target and a longer
\* option starting with it, the option selectLookupValue clicks is the equal one.
C1_ExactMatchPriority ==
    ( /\ op = "selectLookupValue"
      /\ Has("clickOption")
      /\ HasExact(window, value)
      /\ HasLonger(window, value) )
    => SameText(ClickedName, value)

\* C2: selectLookupValue triggers the dialog at most once, only after all scrollPages
\* scroll+probe iterations and never after an inline click; and when a listbox was rendered
\* and never showed the target, a finished call has triggered it exactly once.
C2_EscalationOnExhaustion ==
    op = "selectLookupValue" =>
       /\ DialogTriggers <= 1
       /\ DialogTriggers = 1 =>
             /\ Count("scrollBy") = opts.scrollPages
             /\ i = opts.scrollPages
             /\ ~Has("clickOption")
             /\ LastIndex("scrollBy") < LastIndex("clickMoreBtn") + LastIndex("press Alt+ArrowDown")
       /\ (pc = "done" /\ hist.listbox /\ hist.firstAt = -1) => DialogTriggers = 1

C2_Witness ==
    /\ op = "selectLookupValue"
    /\ Returned
    /\ hist.listbox
    /\ hist.firstAt = -1
    /\ opts.scrollPages = 2
    /\ Count("scrollBy") = 2
    /\ DialogTriggers = 1

\* C3: if the target first shows after the k-th scroll, k >= 1, it is clicked after exactly k
\* scrolls and nothing is scrolled after the click; a call whose listbox never shows it
\* scrolls exactly scrollPages times and never more; every scroll has a positive delta.
C3_BoundedScroll ==
    op = "selectLookupValue" =>
       /\ Count("scrollBy") <= opts.scrollPages
       /\ \A n \in 1..Len(trace) : trace[n].g = "scrollBy" => trace[n].dy > 0
       /\ hist.firstAt >= 1 =>
             /\ Has("clickOption")
             /\ Count("scrollBy") = hist.firstAt
             /\ LastIndex("scrollBy") < LastIndex("clickOption")
             /\ pc = "done"
       /\ Has("clickOption") => Count("scrollBy") = hist.firstAt
       /\ (hist.listbox /\ hist.firstAt = -1 /\ pc \notin { "probeExact", "probeStarts", "scroll" })
             => Count("scrollBy") = opts.scrollPages

C3_Witness ==
    /\ op = "selectLookupValue"
    /\ Returned
    /\ hist.firstAt = 2
    /\ Count("scrollBy") = 2
    /\ Has("clickOption")

\* C4: when every rendered entry, inline and in the dialog grid, is a longer name starting
\* with the target, the call with exact=false succeeds by committing such an entry, and the
\* call with exact=true and the other options at their defaults raises and commits nothing.
C4_PrefixFallback ==
    ( /\ op = "selectLookupValue"
      /\ pc = "done"
      /\ hist.listbox
      /\ hist.onlyLonger )
    => /\ ~opts.exact =>
             /\ result = "ok"
             /\ Has("clickOption")
             /\ LongerWithPrefix(ClickedName, value)
       /\ (opts.exact /\ opts.dialogStartsWith) =>
             /\ result # "ok"
             /\ ~Has("clickOption")
             /\ ~RowCommitted

\* C5: with both month buttons present, each click moving the popup by one month and a
\* month-name heading, navigation from the month first shown to the target month takes exactly
\* |monthsDiff| gestures: clicks on next only when the target is later, clicks on previous only
\* when it is earlier, none when it is the month shown, and never a keyboard gesture.
C5_HopCount ==
    ( /\ op = "pickFromCalendar"
      /\ pc \in { "calLoop", "calDay", "done" }
      /\ result # "CalendarNotVisible"
      /\ cal.hasNext
      /\ cal.hasPrev
      /\ cal.moves
      /\ cal.fmt # "numeric" )
    => LET diff == Index(cal.want) - Index(cal.start)
       IN /\ cal.nPgDn = 0
          /\ cal.nPgUp = 0
          /\ diff >= 0 => (cal.nPrev = 0 /\ cal.nNext <= diff)
          /\ diff <= 0 => (cal.nNext = 0 /\ cal.nPrev <= -diff)
          /\ pc \in { "calDay", "done" } => cal.nNext + cal.nPrev = Abs(diff)

C5_Witness ==
    /\ op = "pickFromCalendar"
    /\ Returned
    /\ cal.hasNext
    /\ cal.hasPrev
    /\ cal.moves
    /\ cal.fmt = "long"
    /\ cal.start = [y |-> 2024, m |-> 1]
    /\ cal.want = [y |-> 2024, m |-> 3]
    /\ cal.nNext = 2
    /\ cal.nPrev = 0

\* C6: the navigation loop never issues a gesture of the direction opposite to the computed
\* one: going forward it neither clicks previous nor presses PageUp, going backward it neither
\* clicks next nor presses PageDown.
C6_DirectionFallback ==
    op = "pickFromCalendar" =>
       /\ cal.goNext = "true" => (cal.nPrev = 0 /\ cal.nPgUp = 0)
       /\ cal.goNext = "false" => (cal.nNext = 0 /\ cal.nPgDn = 0)

\* C7: the day cell pickFromCalendar clicks has text equal to the target day.
C7_DayCellExact ==
    ( /\ op = "pickFromCalendar"
      /\ Returned )
    => cal.clicked = cal.day

\* C8: a lookup-setting operation returns success only after it read the control's displayed
\* value back and found it to match the target.
C8_VerifiedCommit ==
    ( /\ op \in { "selectLookupValue", "forceLookupDialogSelection", "setLookup" }
      /\ Returned )
    => /\ Has("readBack")
       /\ Test(valueRx(value, opts.exact), chip)

\* C9: when the double-click on the row completed and the dialog is still open, the
\* checkbox-then-confirm gesture is attempted before the operation reports failure.
C9_TwoTierCommit ==
    ( /\ op \in lookupOps
      /\ Raised
      /\ Has("dblclickRow")
      /\ dlgOpen )
    => /\ Has("checkRow")
       /\ Has("clickConfirm")

\* C10: an operation that entered the dialog path returns success only after the dialog was
\* observed hidden following the commit gesture; with the dialog still open it raises.
C10_NotCommittedNeverSilent ==
    DialogPath =>
       /\ Returned =>
             /\ ~dlgOpen
             /\ RowCommitted
             /\ LastIndex("expectDialogHidden") > LastIndex("dblclickRow")
             /\ LastIndex("expectDialogHidden") > LastIndex("clickConfirm")
       /\ (pc = "done" /\ dlgOpen) => result # "ok"

C10_Witness ==
    /\ op = "forceLookupDialogSelection"
    /\ Returned
    /\ Has("clickConfirm")
    /\ ~dlgOpen

\* C11: a call of selectLookupValue or setLookup that ends in an error leaves the field as it
\* was before the call: the same committed value, and no typed query text left in the input.
C11_AtomicSelection ==
    ( /\ op \in { "selectLookupValue", "setLookup" }
      /\ Raised )
    => /\ chip = hist.before
       /\ typed = NoText

\* the text is the value itself, starts with it, or contains it, case aside
IsLiteralMatch(m, v, t) ==
    IF m \in { "lookup.exactRx", "setOption.exact", "setLookup.exact", "grid.rx" }
    THEN SameText(t, v)
    ELSE IF m = "lookup.startsRx"
    THEN Len(t) >= Len(v) /\ Fold(SubSeq(t, 1, Len(v))) = Fold(v)
    ELSE Includes(Fold(t), Fold(v))

\* C12: every matcher built from a literal value matches the value itself, and matches a
\* text only when the text is (exact), starts with (prefix) or contains (non-exact, partial)
\* the value read character by character, never through a metacharacter's meaning.
C12_EscapeCorrectness ==
    ( /\ op \in Matchers
      /\ pc = "done" )
    => /\ typed = value => result = "match"
       /\ result = "match" => IsLiteralMatch(op, value, typed)

\* parseDateLoose made a date of the text
Parsed == op = "setDate" /\ pc = "findDateHandles"

\* C13: the year-first dash text of a date parses, in every time zone, to the same local
\* year, month and day as the day-first slash text of that date.
C13_DateLayoutEquivalence ==
    \A D \in Dates :
       ( /\ op = "setDate"
         /\ pc # "idle"
         /\ value = Format("yyyy-MM-dd", D) )
       => /\ Parsed
          /\ Target = parseDateLoose(Format("dd/MM/yyyy", D), cal.tz)

\* C14: a text that is neither the day-first slash layout nor the year-first dash layout is
\* rejected with the unrecognized-date error, before any gesture on the page.
C14_UnparsableRejected ==
    ( /\ op = "setDate"
      /\ pc # "idle"
      /\ value \notin { Format(l, D) : l \in { "dd/MM/yyyy", "d/M/yyyy", " dd/MM/yyyy ",
                                               "yyyy-MM-dd" }, D \in Dates } )
    => /\ result = "UnparsableDate"
       /\ pc = "done"
       /\ trace = << >>

WasEmpty == hist.before = NoText /\ hist.beforeTyped = NoText
SameAsOnce == << chip, typed, result >> = hist.once

Tolerated == { "label", "LABEL", "label *", "label*", "label, Lookup", "label,lookup" }

\* C16: every resolver accepts a control named by the label, the label with a required
\* marker or the label with ", Lookup", case aside, and rejects every name that merely
\* starts with or contains the label.
C16_UniformLabelMatching ==
    ( /\ op \in Resolvers
      /\ pc = "done" )
    => /\ typed \in { NameOf(value, v) : v \in Tolerated } => result = "accepts"
       /\ typed \in { NameOf(value, v) : v \in Variants \ Tolerated } => result = "rejects"

\* the gesture that opens the auxiliary dialog
DialogGesture == LastIndex("clickMoreBtn") + LastIndex("press Alt+ArrowDown")
                    + LastIndex("clickMoreOption")

\* C17: selectLookupValue and setLookup alike open the auxiliary dialog only after a
\* scroll-search of the inline list that used up its bound.
C17_PipelineShape ==
    ( /\ op \in { "selectLookupValue", "setLookup" }
      /\ DialogPath )
    => /\ Has("scrollBy") \/ (op = "selectLookupValue" /\ opts.scrollPages = 0)
       /\ op = "selectLookupValue" => Count("scrollBy") = opts.scrollPages
       /\ LastIndex("scrollBy") < DialogGesture

AllFieldOps == { "selectLookupValue", "forceLookupDialogSelection", "setLookup", "setOption",
                 "setMultiOption", "setText", "setNumber", "setBoolean" }

\* C18: with no control of the label visible, a field operation ends in an error and has
\* issued no gesture on the page.
C18_ControlNotFoundTerminal ==
    ( /\ op \in AllFieldOps
      /\ page.control # "visible"
      /\ pc \notin { "idle", "findLookup", "slResolve", "resolve", "act" } )
    => /\ Raised
       /\ trace = << >>

\* C19: in pickFromLookupDialog, when no dialog is visible after the trigger gesture the
\* operation ends there with DialogDidNotOpen: the trigger is its last gesture, so no search
\* fill, row double-click, checkbox, row click or confirm follows, and no row was probed.
C19_DialogDidNotOpenFatal ==
    /\ [][ ( /\ op \in lookupOps
             /\ pc = "dlgTrigger"
             /\ ~dlgOpen' )
           => /\ pc' = "done"
              /\ result' = "DialogDidNotOpen" ]_vars
    /\ [] ( ( /\ op \in lookupOps
              /\ result = "DialogDidNotOpen" )
            => /\ Raised
               /\ DialogGesture = Len(trace)
               /\ ~Has("fillSearch")
               /\ ~Has("dblclickRow")
               /\ ~Has("checkRow")
               /\ ~Has("clickRow")
               /\ ~Has("clickConfirm")
               /\ rows = << >>
               /\ row = 0 )

C19_Witness ==
    /\ op = "selectLookupValue"
    /\ result = "DialogDidNotOpen"
    /\ Has("press Alt+ArrowDown")
    /\ Len(trace) > 1

\* C20: in selectLookupValue the wait for a search response is advisory. Whether a response
\* was seen or the wait timed out, the entry step goes on to the exact probe without an
\* error, no call ends because of the wait, and a call that ended after its entry has run
\* the option probes.
C20_NetworkSettleAdvisory ==
    /\ [][ ( /\ op = "selectLookupValue"
             /\ pc = "entry" )
           => /\ pc' = "probeExact"
              /\ result' = result ]_vars
    /\ [] ( ( /\ op = "selectLookupValue"
              /\ pc = "done"
              /\ Has("fill") )
            => /\ result # "SearchTimedOut"
               /\ option \in { "exactRx", "startsRx" } )

\* the wait timed out and the call still committed an inline option after a scroll
C20_Witness ==
    /\ op = "selectLookupValue"
    /\ ~hist.response
    /\ Returned
    /\ Has("scrollBy")
    /\ Has("clickOption")

\* C21: setDate returns only when the value read back from the field shows the target date
\* as dd/MM/yyyy or yyyy-MM-dd, on the typed path and on the calendar path alike, and the
\* calendar is opened only when there is no editable input or the typed value did not read
\* back as the target date.
C21_SetDateVerified ==
    /\ ( /\ op = "setDate"
         /\ Returned )
       => \/ Includes(typed, au(Target))
          \/ Includes(typed, iso(Target))
    /\ ( /\ op = "setDate"
         /\ pc \in { "openCalendar", "calExpect", "calPlan", "calLoop", "calDay" } )
       => \/ ~page.editable
          \/ ~(Includes(typed, au(Target)) \/ Includes(typed, iso(Target)))

\* the calendar path of a combobox that shows its value as text
C21_Witness ==
    /\ op = "setDate"
    /\ Returned
    /\ ~page.editable
    /\ cal.clicked = cal.day
    /\ typed = iso(Target)

\* C22: findRowByCell scrolls at most maxScrolls times before it gives up, every scroll is
\* followed by another probe of the column, and a match that first comes into view after the
\* k-th scroll, k <= maxScrolls, is returned after exactly k scrolls.
C22_GridScrollBound ==
    ( /\ op \in gridOps
      /\ pc \in { "done", "rowAct" }
      /\ result # "GridNotVisible" )
    => /\ grid.scrolls <= grid.maxScrolls
       /\ grid.probes = grid.scrolls + 1
       /\ ( /\ grid.by = "logicalName"
            /\ grid.firstAt >= 0
            /\ grid.firstAt <= grid.maxScrolls )
          => /\ grid.row # 0
             /\ grid.scrolls = grid.firstAt

\* C23: asked by column header, findRowByCell returns a row with a visible cell matching the
\* value in the column under that header, whenever such a row comes into view within the
\* scroll bound.
C23_HeaderFallback ==
    ( /\ op \in gridOps
      /\ pc \in { "done", "rowAct" }
      /\ grid.by = "columnHeader"
      /\ grid.firstAt >= 0
      /\ grid.firstAt <= grid.maxScrolls )
    => /\ grid.row # 0
       /\ Test(gridRx(grid.value, grid.partial), grid.cells[grid.row][grid.column])

\* C24: after setOption(label, value) returned, getValue(label) returns a text that matches
\* the value case-insensitively, whichever roles expose a control under the label.
C24_SetThenRead ==
    ( /\ op = "getValue"
      /\ opts.exact )
    => /\ result = "ok"
       /\ Includes(Fold(hist.returned), Fold(value))

\* C25: setNumber's verification passes when the field displays the typed number with
\* thousands separators inserted, and fails when the displayed digits differ from the typed
\* digits.
C25_NumberFormatting ==
    ( /\ op = "setNumber"
      /\ pc = "done"
      /\ trace # << >> )
    => ( Returned <=> digitsOf(typed) = digitsOf(value) )

\* C26: whenever clearLookup returns without raising, no value chip remains in the lookup;
\* a chip still visible when the check expires makes clearLookup raise.
C26_ClearLookupPostcondition ==
    ( /\ op = "clearLookup"
      /\ pc \in { "once", "twice" } )
    => /\ result = "ok" => chip = NoText
       /\ chip # NoText => result # "ok"

\* month-change gestures issued so far
Hops == cal.nNext + cal.nPrev + cal.nPgDn + cal.nPgUp

\* C27: the navigation loop issues at most |monthsDiff| + 24 month-change gestures when the
\* heading first read parsed as month and year, and at most 480 when it did not, whatever the
\* popup does in response; a gesture is issued only after the heading was read again and did
\* not show the target; and the loop is left: each of its steps is a hop that counts towards
\* the bound or the exit to the day cell, and one of the two can always be taken.
C27_NavigationBounded ==
    /\ [] ( ( /\ op = "pickFromCalendar"
              /\ pc \in { "calLoop", "calDay", "done" }
              /\ result # "CalendarNotVisible" )
            => /\ Hops = i
               /\ Hops <= cal.maxHops
               /\ cal.maxHops =
                     IF headerToMonth(Heading(cal.fmt, cal.start)) = NoMonth
                     THEN DefaultMaxHops
                     ELSE Abs(Index(cal.want) - Index(cal.start)) + SafetyMargin )
    /\ [][ ( /\ op = "pickFromCalendar"
             /\ Hops' > Hops )
           => /\ ~HeadingShowsTarget
              /\ Hops' = Hops + 1 ]_vars
    /\ [][ ( /\ op = "pickFromCalendar"
             /\ pc = "calLoop" )
           => \/ pc' = "calLoop" /\ i' = i + 1 /\ i' <= cal.maxHops /\ cal'.maxHops = cal.maxHops
              \/ pc' = "calDay" ]_vars
    /\ [] ( ( /\ op = "pickFromCalendar"
              /\ pc = "calLoop" )
            => ENABLED (CalHop \/ CalLoopExit) )

\* the popup never moved and its heading never parsed: every one of the 480 hops was used
C27_Witness ==
    /\ op = "pickFromCalendar"
    /\ pc = "calDay"
    /\ cal.fmt = "numeric"
    /\ ~cal.moves
    /\ Hops = DefaultMaxHops

\* C28: a day cell is clicked only while the popup heading shows the target month and year;
\* when the hops are used up without the heading showing it, no day cell is clicked and the
\* operation fails.
C28_NoDayInWrongMonth ==
    ( /\ op = "pickFromCalendar"
      /\ pc = "done"
      /\ result # "CalendarNotVisible" )
    => /\ cal.clicked # 0 => HeadingShowsTarget
       /\ ~HeadingShowsTarget => Raised

\* C29: selectLookupValue clicks at most one inline option; the click is its last gesture
\* and the call has returned with it, so no scroll, probe or dialog trigger follows; and a
\* dialog row is committed only when no inline option was clicked.
C29_SingleCommit ==
    op = "selectLookupValue" =>
       /\ Count("clickOption") <= 1
       /\ Has("clickOption") =>
             /\ Returned
             /\ LastIndex("clickOption") = Len(trace)
             /\ DialogGesture = 0
       /\ (Has("dblclickRow") \/ Has("checkRow") \/ Has("clickRow") \/ Has("clickConfirm"))
             => ~Has("clickOption")

\* an option found by the exact probe after two scrolls, clicked, and nothing after it
C29_Witness ==
    /\ op = "selectLookupValue"
    /\ Returned
    /\ option = "exactRx"
    /\ Count("scrollBy") = 2
    /\ Count("clickOption") = 1
    /\ LastIndex("clickOption") = Len(trace)

\* names of the dialog rows a commit gesture was issued on
CommitNames ==
    { trace[n].name : n \in { m \in 1..Len(trace) :
                                trace[m].g \in { "dblclickRow", "checkRow", "clickRow" } } }

\* C30: in pickFromLookupDialog the row committed equals the target, case aside, whenever
\* such a row is shown, also next to a longer row that starts with the target; a row that
\* only starts with the target is committed only with allowStartsWith and no exact row
\* shown; with allowStartsWith = false and no exact row shown the operation fails and commits
\* nothing.
C30_DialogRowTiering ==
    /\ [] ( op \in lookupOps =>
              \A name \in CommitNames :
                 /\ Test(startsRx(value), name)
                 /\ IsVisible(rows, exactRx(value)) => Test(exactRx(value), name)
                 /\ ~opts.dialogStartsWith => Test(exactRx(value), name) )
    /\ [][ ( /\ op \in lookupOps
             /\ pc = "dlgRow"
             /\ ~opts.dialogStartsWith
             /\ ~IsVisible(rows', exactRx(value)) )
           => /\ pc' = "done"
              /\ result' = "RowNotFound"
              /\ CommitNames' = {} ]_vars

\* the longer row comes first in the grid and the exact row is the one committed
C30_Witness ==
    /\ op \in lookupOps
    /\ Returned
    /\ opts.dialogStartsWith
    /\ value = << "a", "b" >>
    /\ rows = << << "a", "b", "c" >>, << "a", "b" >> >>
    /\ CommitNames = { << "a", "b" >> }
    /\ chip = << "a", "b" >>

\* the click on the checkbox or switch did not change its state
ToggleIgnored == Has("clickToggle") /\ page.checked # value

\* C31: on a visible control of any of the three renderings and for either requested value,
\* setBoolean returns with the control in the requested state; a checkbox or switch is
\* clicked at most once, and not at all when it already is in that state.
C31_BooleanReached ==
    ( /\ op = "setBoolean"
      /\ pc = "done"
      /\ page.control = "visible" )
    => /\ page.role \in { "checkbox", "switch" } =>
             /\ Count("clickToggle") <= 1
             /\ ~ToggleIgnored => ( Returned /\ page.checked = value )
       /\ page.role = "combobox" => ( Returned => TargetTest(value, chip) )

\* C32: setBoolean uses the visible rendering of the field, whatever renderings of a role
\* tried earlier are attached to the page unseen: it does not stop on a control it cannot act
\* on, a success leaves the visible checkbox or switch in the requested state, and the
\* gestures of one call are those of a single variant.
C32_RoleDispatch ==
    ( /\ op = "setBoolean"
      /\ pc = "done"
      /\ page.control = "visible" )
    => /\ result \notin { "NotActionable", "ControlNotFound" }
       /\ ( Returned /\ page.role \in { "checkbox", "switch" } ) => page.checked = value
       /\ ~( Has("clickInput") /\ Has("clickToggle") )
       /\ page.role = "combobox" <=> Has("clickInput")

\* the names of the options clicked, in order
ClickedAt == { n \in 1..Len(trace) : trace[n].g = "clickOption" }

\* C33: setMultiOption clicks only options that are not selected at the time of the click, so
\* an option is clicked at most once and never one that was selected before the call; every
\* option selected before the call is still selected after it, and on success every requested
\* value names a selected option.
C33_OnlyAddsSelections ==
    ( /\ op = "setMultiOption"
      /\ pc = "done" )
    => /\ \A n \in ClickedAt :
             /\ trace[n].name \notin hist.selected
             /\ \A m \in ClickedAt : trace[m].name = trace[n].name => m = n
       /\ hist.selected \subseteq page.selected
       /\ page.selected = hist.selected \cup { trace[n].name : n \in ClickedAt }
       /\ Returned => \A n \in 1..Len(value) :
                         \E t \in page.selected : Test(exactRx(value[n]), t)

\* a call with the same value twice, one option selected before the call and kept though it is
\* not requested, and the requested option clicked once
C33_Witness ==
    /\ op = "setMultiOption"
    /\ Returned
    /\ Len(value) = 2
    /\ value[1] = value[2]
    /\ Cardinality(ClickedAt) = 1
    /\ \E t \in hist.selected \cap page.selected :
          \A n \in 1..Len(value) : ~Test(exactRx(value[n]), t)

\* C34: during and after setLookup, whether it succeeds or raises, no gesture goes to another
\* lookup of the page and that lookup shows what it showed before the call.
C34_OwnFieldOnly ==
    ( /\ op = "setLookup"
      /\ pc \notin { "idle", "slResolve" } )
    => /\ ~Has("clickOtherClearBtn")
       /\ page.other = hist.other

\* the position of a step in the resolve -> direct entry -> probes -> scroll-search -> dialog
\* pipeline of the two lookup operations
PipelineOrder == << "findLookup", "entry", "probeExact", "probeStarts", "scroll", "dlgTrigger",
                    "dlgRow", "dlgCommit", "dlgExpectHidden", "done" >>
PipelineRank(p) == CHOOSE n \in 1..Len(PipelineOrder) : PipelineOrder[n] = p

\* one step of a lookup operation under way
LookupStep ==
    \/ findLookup
    \/ DirectEntry
    \/ ProbeExact
    \/ ProbeStarts
    \/ ScrollStep
    \/ Escalate
    \/ ForceEntry
    \/ DlgTrigger
    \/ DlgRow
    \/ DlgCommit
    \/ DlgExpectHidden

\* C35: selectLookupValue and forceLookupDialogSelection end: an operation under way can always
\* take a step; each step moves it to a later stage of the pipeline, except a scroll that
\* finds nothing, which stays in the loop with its counter one higher and at most
\* scrollPages; and the gestures issued never number more than thirteen plus scrollPages.
C35_LookupTerminates ==
    /\ []( ( op \in lookupOps /\ pc \notin { "idle", "done" } )
             => /\ \E n \in 1..Len(PipelineOrder) : PipelineOrder[n] = pc
                /\ ENABLED << LookupStep >>_vars )
    /\ []( op \in lookupOps
             => /\ Len(trace) <= 13 + opts.scrollPages
                /\ i <= opts.scrollPages )
    /\ [][ ( op \in lookupOps /\ pc # "idle" )
             => \/ PipelineRank(pc') > PipelineRank(pc)
                \/ /\ pc = "scroll"
                   /\ pc' = "scroll"
                   /\ i' = i + 1
                   /\ i' <= opts.scrollPages
                   /\ opts' = opts ]_vars

\* a selectLookupValue that scrolled all its pages, went through the dialog and ended, after
\* the largest number of gestures a call with that scrollPages can issue
C35_Witness ==
    /\ op = "selectLookupValue"
    /\ pc = "done"
    /\ opts.scrollPages = MaxScrollPages
    /\ i = opts.scrollPages
    /\ Len(trace) = 13 + opts.scrollPages

====
